---- MODULE Spec2Model ----
(***************************************************************************)
(* Evaluation runner of RGGH/evaluate: provider dispatch, the run_eval     *)
(* pipeline (primary call, judge call), run_batch_evals (join_all), the    *)
(* HTTP handlers run_eval / run_batch, the judge prompt store, the         *)
(* WebSocket broker with its connections, the provider adapters and the    *)
(* text functions (parse_model_string, parse_model_output,                 *)
(* parse_judge_response, render) applied on their own.                     *)
(*                                                                         *)
(* Texts are TLA+ strings, read character-wise with Len and SubSeq.        *)
(* Option<T> is a tuple of length 0 (None) or 1 (Some), Result<T, E> a     *)
(* record with one of the fields val, err set.                             *)
(***************************************************************************)
EXTENDS Integers, Sequences, FiniteSets, TLC

VARIABLES
    config,         \* AppConfig: the set of provider names that have a configuration
    db_pool,        \* AppState.db_pool: TRUE when a SqlitePool exists
    judge_prompts,  \* table judge_prompts: set of rows [version, template, is_active]
    evals,          \* the EvalConfig sequence handed to the handler
    task,           \* task[i]: the run_eval future of evals[i]
    calls,          \* calls[i]: the network requests future i has sent, in order
    completed,      \* indices of the futures in the order they completed
    results,        \* Option: what run_batch_evals returned
    response,       \* Option: the HTTP response of the handler
    updates,        \* the EvalUpdate events handed to WsBroker::broadcast, in order
    evaluations,    \* table evaluations: the rows save_evaluation inserted
    clients,        \* WsBroker.clients: the addresses of the registered connections, in order
    connections,    \* connections[a]: the WsConnection actor with address a and its tasks
    input,          \* the argument of a function applied on its own (None in the handlers)
    output          \* Option: what that function returned

vars == <<config, db_pool, judge_prompts, evals, task, calls, completed, results, response,
          updates, evaluations, clients, connections, input, output>>

----------------------------------------------------------------------------
(* Bounds *)

BatchSize == 2
\* the WebSocket connections opened during a run
MaxConnections == 2
MaxVersions == 2

----------------------------------------------------------------------------
(* Option and Result *)

None == <<>>
Some(x) == <<x>>
IsSome(o) == o # <<>>
Unwrap(o) == o[1]

Ok(v) == [val |-> Some(v), err |-> None]
Err(e) == [val |-> None, err |-> Some(e)]
IsOk(r) == IsSome(r.val)
IsErr(r) == IsSome(r.err)

----------------------------------------------------------------------------
(* str helpers *)

CharAt(s, i) == SubSeq(s, i, i)

starts_with(s, p) == Len(s) >= Len(p) /\ SubSeq(s, 1, Len(p)) = p

contains(s, sub) ==
    \E i \in 1..(Len(s) - Len(sub) + 1) : SubSeq(s, i, i + Len(sub) - 1) = sub

\* position of the first occurrence of sub at or after from, 0 when there is none
find_from(s, sub, from) ==
    LET hits == {i \in from..(Len(s) - Len(sub) + 1) : SubSeq(s, i, i + Len(sub) - 1) = sub}
    IN  IF hits = {} THEN 0 ELSE CHOOSE i \in hits : \A j \in hits : i <= j

UPPER == "ABCDEFGHIJKLMNOPQRSTUVWXYZ"
LOWER == "abcdefghijklmnopqrstuvwxyz"

LowerChar(c) ==
    LET k == find_from(UPPER, c, 1) IN IF k = 0 THEN c ELSE CharAt(LOWER, k)

RECURSIVE to_lowercase(_)
to_lowercase(s) ==
    IF Len(s) = 0 THEN "" ELSE LowerChar(CharAt(s, 1)) \o to_lowercase(SubSeq(s, 2, Len(s)))

----------------------------------------------------------------------------
(* errors.rs: EvalError *)

ProviderNotFound(name) == [kind |-> "ProviderNotFound", arg |-> name]
ModelFailure(model) == [kind |-> "ModelFailure", arg |-> model]
JudgeFailure(model, source) == [kind |-> "JudgeFailure", arg |-> model]
RequestError == [kind |-> "Request", arg |-> ""]
ApiError(status) == [kind |-> "ApiError", arg |-> ToString(status)]
ApiResponseError == [kind |-> "ApiResponse", arg |-> ""]
UnexpectedResponse(ctx) == [kind |-> "UnexpectedResponse", arg |-> ctx]
EmptyResponse == [kind |-> "EmptyResponse", arg |-> ""]

----------------------------------------------------------------------------
(* config.rs: render_template and EvalConfig::render *)

\* the set of the characters of s
Chars(s) == {CharAt(s, k) : k \in 1..Len(s)}

WHITESPACE == Chars(" \n\t\r")
WORD_CHARS == Chars("abcdefghijklmnopqrstuvwxyzABCDEFGHIJKLMNOPQRSTUVWXYZ0123456789_")

\* first position at or after i whose character is not in class (Len(s) + 1 at the end)
RECURSIVE skip_class(_, _, _)
skip_class(s, i, class) ==
    IF i <= Len(s) /\ CharAt(s, i) \in class THEN skip_class(s, i + 1, class) ELSE i

\* the regex \{\{\s*(\w+)\s*\}\} anchored at position i:
\* [end |-> last position of the match (0: no match), key |-> capture 1]
match_placeholder(s, i) ==
    LET j == skip_class(s, i + 2, WHITESPACE)
        k == skip_class(s, j, WORD_CHARS)
        l == skip_class(s, k, WHITESPACE)
    IN  IF i + 1 <= Len(s) /\ SubSeq(s, i, i + 1) = "{{"
           /\ k > j /\ l + 1 <= Len(s) /\ SubSeq(s, l, l + 1) = "}}"
        THEN [end |-> l + 1, key |-> SubSeq(s, j, k - 1)]
        ELSE [end |-> 0, key |-> ""]

\* variant: a placeholder without a string value is replaced by the empty text
substitute_or_blank(data, key, placeholder) ==
    IF data.t = "object" /\ key \in DOMAIN data.object /\ data.object[key].t = "string"
    THEN data.object[key].string
    ELSE ""

\* the closure given to replace_all; data is a JSON value (see JObject below):
\* data.get(key) is Some for an object that holds key, as_str is Some for a string
substitute(data, key, placeholder) ==
    IF data.t = "object" /\ key \in DOMAIN data.object /\ data.object[key].t = "string"
    THEN data.object[key].string
    ELSE placeholder

\* replace_all: leftmost matches, not overlapping, the text between them copied
RECURSIVE render_from(_, _, _)
render_from(s, i, data) ==
    LET o == find_from(s, "{{", i)
    IN  IF o = 0 THEN SubSeq(s, i, Len(s))
        ELSE LET m == match_placeholder(s, o)
             IN  IF m.end > 0
                 THEN SubSeq(s, i, o - 1)
                      \o substitute(data, m.key, SubSeq(s, o, m.end))
                      \o render_from(s, m.end + 1, data)
                 ELSE SubSeq(s, i, o) \o render_from(s, o + 1, data)

render_template(template, data) == render_from(template, 1, data)

\* variant: criteria is rendered like prompt and expected
render_with_criteria(eval) ==
    IF IsSome(eval.metadata)
    THEN Ok([eval EXCEPT
            !.prompt = render_template(eval.prompt, Unwrap(eval.metadata)),
            !.expected = IF IsSome(eval.expected)
                         THEN Some(render_template(Unwrap(eval.expected), Unwrap(eval.metadata)))
                         ELSE None,
            !.criteria = IF IsSome(eval.criteria)
                         THEN Some(render_template(Unwrap(eval.criteria), Unwrap(eval.metadata)))
                         ELSE None])
    ELSE Ok(eval)

\* EvalConfig::render: a rendered clone of eval in Ok; no path returns Err
render(eval) ==
    IF IsSome(eval.metadata)
    THEN Ok([eval EXCEPT
            !.prompt = render_template(eval.prompt, Unwrap(eval.metadata)),
            !.expected = IF IsSome(eval.expected)
                         THEN Some(render_template(Unwrap(eval.expected), Unwrap(eval.metadata)))
                         ELSE None])
    ELSE Ok(eval)

----------------------------------------------------------------------------
(* runner.rs: parse_model_string, call_provider *)

\* variant: the split at the last ':' (rsplit_once)
parse_model_string_rsplit(model_str) ==
    LET hits == {i \in 1..Len(model_str) : CharAt(model_str, i) = ":"}
        i == IF hits = {} THEN 0 ELSE CHOOSE k \in hits : \A j \in hits : j <= k
    IN  IF i > 0
        THEN [provider |-> SubSeq(model_str, 1, i - 1), model |-> SubSeq(model_str, i + 1, Len(model_str))]
        ELSE [provider |-> "gemini", model |-> model_str]

\* variant: another default provider
parse_model_string_default_openai(model_str) ==
    LET i == find_from(model_str, ":", 1)
    IN  IF i > 0
        THEN [provider |-> SubSeq(model_str, 1, i - 1), model |-> SubSeq(model_str, i + 1, Len(model_str))]
        ELSE [provider |-> "openai", model |-> model_str]

parse_model_string(model_str) ==
    LET i == find_from(model_str, ":", 1)
    IN  IF i > 0
        THEN [provider |-> SubSeq(model_str, 1, i - 1), model |-> SubSeq(model_str, i + 1, Len(model_str))]
        ELSE [provider |-> "gemini", model |-> model_str]

\* the provider names call_provider has an arm for (lines 250-275)
KnownProviders == {"anthropic", "gemini", "ollama", "openai"}

\* variant: a last arm that falls back to the default provider
provider_lookup_fallback(cfg, provider_name) ==
    IF provider_name \in KnownProviders
    THEN IF provider_name \in cfg THEN Ok(provider_name) ELSE Err(ProviderNotFound(provider_name))
    ELSE IF "gemini" \in cfg THEN Ok("gemini") ELSE Err(ProviderNotFound(provider_name))

\* the match of call_provider up to the adapter it constructs: Ok(adapter) or
\* Err(ProviderNotFound) before anything is sent
provider_lookup(cfg, provider_name) ==
    CASE provider_name = "anthropic" ->
            IF "anthropic" \in cfg THEN Ok("anthropic") ELSE Err(ProviderNotFound("anthropic"))
      [] provider_name = "gemini" ->
            IF "gemini" \in cfg THEN Ok("gemini") ELSE Err(ProviderNotFound("gemini"))
      [] provider_name = "ollama" ->
            IF "ollama" \in cfg THEN Ok("ollama") ELSE Err(ProviderNotFound("ollama"))
      [] provider_name = "openai" ->
            IF "openai" \in cfg THEN Ok("openai") ELSE Err(ProviderNotFound("openai"))
      [] OTHER -> Err(ProviderNotFound(provider_name))

----------------------------------------------------------------------------
(* providers/*.rs: the adapters.  A raw response is                        *)
(*   [transport |-> "ok" | "error",   send() succeeded or failed           *)
(*    status    |-> HTTP status,                                           *)
(*    body      |-> "invalid"  not JSON,                                   *)
(*                  "error"    an error envelope, no result fields,        *)
(*                  "no_items" result list (candidates/choices/content)    *)
(*                             empty,                                      *)
(*                  "no_text"  item present, text field missing or null,   *)
(*                  "text"     text field present,                         *)
(*    text      |-> the text field,                                        *)
(*    usage     |-> Option [input, output], the usage block,               *)
(*    latency_ms|-> elapsed time measured around send()]                   *)

TokenUsage(i, o) == [input_tokens |-> i, output_tokens |-> o]
TokenUsageDefault == TokenUsage(None, None)

Generated(resp, usage) == Ok([text |-> resp.text, latency_ms |-> resp.latency_ms, usage |-> usage])

is_success(status) == status >= 200 /\ status <= 299

\* variant: an adapter without the output.is_empty() test
GeminiGenerateNoEmptyCheck(resp) ==
    IF resp.transport = "error" THEN Err(RequestError)
    ELSE IF ~is_success(resp.status) THEN Err(ApiError(resp.status))
    ELSE IF resp.body = "invalid" THEN Err(RequestError)
    ELSE IF resp.body = "error" THEN Err(ApiResponseError)
    ELSE IF resp.body \in {"no_items", "no_text"} THEN Err(UnexpectedResponse("body"))
    ELSE Generated(resp, TokenUsageDefault)

GeminiGenerate(resp) ==
    IF resp.transport = "error" THEN Err(RequestError)
    ELSE IF ~is_success(resp.status) THEN Err(ApiError(resp.status))
    ELSE IF resp.body = "invalid" THEN Err(RequestError)
    ELSE IF resp.body = "error" THEN Err(ApiResponseError)
    ELSE IF resp.body \in {"no_items", "no_text"} THEN Err(UnexpectedResponse("body"))
    ELSE IF resp.text = "" THEN Err(EmptyResponse)
    ELSE Generated(resp, TokenUsageDefault)

OpenAIGenerate(resp) ==
    IF resp.transport = "error" THEN Err(RequestError)
    ELSE IF ~is_success(resp.status) THEN Err(ApiError(resp.status))
    ELSE IF resp.body \in {"invalid", "error", "no_text"} THEN Err(RequestError)
    ELSE IF resp.body = "no_items" THEN Err(UnexpectedResponse("No choices in response"))
    ELSE IF resp.text = "" THEN Err(EmptyResponse)
    ELSE Generated(resp, IF IsSome(resp.usage)
                         THEN TokenUsage(Some(Unwrap(resp.usage).input), Some(Unwrap(resp.usage).output))
                         ELSE TokenUsageDefault)

AnthropicGenerate(resp) ==
    IF resp.transport = "error" THEN Err(RequestError)
    ELSE IF ~is_success(resp.status) THEN Err(ApiError(resp.status))
    ELSE IF resp.body \in {"invalid", "error"} \/ ~IsSome(resp.usage) THEN Err(RequestError)
    ELSE IF resp.body \in {"no_items", "no_text"} THEN Err(UnexpectedResponse("No text content in response"))
    ELSE IF resp.text = "" THEN Err(EmptyResponse)
    ELSE Generated(resp, TokenUsage(Some(Unwrap(resp.usage).input), Some(Unwrap(resp.usage).output)))

OllamaGenerate(resp) ==
    IF resp.transport = "error" THEN Err(RequestError)
    ELSE IF ~is_success(resp.status) THEN Err(ApiError(resp.status))
    ELSE IF resp.body \in {"invalid", "error", "no_items", "no_text"} THEN Err(RequestError)
    ELSE IF resp.text = "" THEN Err(EmptyResponse)
    ELSE Generated(resp, TokenUsageDefault)

generate(adapter, resp) ==
    CASE adapter = "anthropic" -> AnthropicGenerate(resp)
      [] adapter = "gemini" -> GeminiGenerate(resp)
      [] adapter = "ollama" -> OllamaGenerate(resp)
      [] adapter = "openai" -> OpenAIGenerate(resp)

----------------------------------------------------------------------------
(* runner.rs: parse_model_output and its strategies *)

\* str::trim: without the white space at both ends
RECURSIVE trim_start(_)
trim_start(s) ==
    IF Len(s) > 0 /\ CharAt(s, 1) \in WHITESPACE THEN trim_start(SubSeq(s, 2, Len(s))) ELSE s

RECURSIVE trim_end(_)
trim_end(s) ==
    IF Len(s) > 0 /\ CharAt(s, Len(s)) \in WHITESPACE THEN trim_end(SubSeq(s, 1, Len(s) - 1)) ELSE s

trim(s) == trim_end(trim_start(s))

\* s has lit at position i
at(s, i, lit) == i >= 1 /\ i + Len(lit) - 1 <= Len(s) /\ SubSeq(s, i, i + Len(lit) - 1) = lit

DIGITS == Chars("0123456789")
LETTERS == Chars(LOWER \o UPPER)

\* Option::or_else: first when it is Some, next otherwise
or_else(first, next) == IF IsSome(first) THEN first ELSE next

(* Numbers.  A number is kept as its decimal digits: kind "int" is serde_json's  *)
(* N::PosInt / N::NegInt, kind "float" is N::Float (an f64).  int has no leading *)
(* zeros, frac no trailing zeros; zero has no sign, as -0.0 == 0.0.  The digits  *)
(* are those of the f64 for texts of up to 15 significant digits.                *)
Number(kind, neg, int, frac) == [kind |-> kind, neg |-> neg, int |-> int, frac |-> frac]

RECURSIVE strip_leading_zeros(_)
strip_leading_zeros(d) ==
    IF d = "" THEN "0"
    ELSE IF Len(d) > 1 /\ CharAt(d, 1) = "0" THEN strip_leading_zeros(SubSeq(d, 2, Len(d)))
    ELSE d

RECURSIVE strip_trailing_zeros(_)
strip_trailing_zeros(d) ==
    IF Len(d) > 0 /\ CharAt(d, Len(d)) = "0" THEN strip_trailing_zeros(SubSeq(d, 1, Len(d) - 1))
    ELSE d

RECURSIVE zeros(_)
zeros(n) == IF n <= 0 THEN "" ELSE "0" \o zeros(n - 1)

digit_value(c) == find_from("0123456789", c, 1) - 1

\* the value of a digit string; 10000 stands for anything that large or larger
RECURSIVE to_nat(_)
to_nat(d) ==
    IF d = "" THEN 0
    ELSE IF Len(strip_leading_zeros(d)) > 4 THEN 10000
    ELSE to_nat(SubSeq(d, 1, Len(d) - 1)) * 10 + digit_value(CharAt(d, Len(d)))

F64_MAX_10_EXP == 308
F64_MIN_10_EXP == -323

\* the run of digits at position i
digits_at(s, i) == SubSeq(s, i, skip_class(s, i, DIGITS) - 1)

\* the pieces of a decimal text: digits, '.', digits, 'e' or 'E', sign, digits;
\* end is the position after the last piece, the exponent digits starting at k
Scanned(int, dot, frac, e, eneg, edigits, k) ==
    [int |-> int, dot |-> dot, frac |-> frac, e |-> e, eneg |-> eneg, edigits |-> edigits,
     end |-> k + Len(edigits)]

\* the exponent, looked for at position c
scan_exponent(s, int, dot, frac, c) ==
    IF at(s, c, "e") \/ at(s, c, "E")
    THEN IF at(s, c + 1, "+") \/ at(s, c + 1, "-")
         THEN Scanned(int, dot, frac, TRUE, at(s, c + 1, "-"), digits_at(s, c + 2), c + 2)
         ELSE Scanned(int, dot, frac, TRUE, FALSE, digits_at(s, c + 1), c + 1)
    ELSE Scanned(int, dot, frac, FALSE, FALSE, "", c)

\* the '.' and the fraction, looked for at position b
scan_fraction(s, int, b) ==
    IF at(s, b, ".")
    THEN scan_exponent(s, int, TRUE, digits_at(s, b + 1), skip_class(s, b + 1, DIGITS))
    ELSE scan_exponent(s, int, FALSE, "", b)

\* the decimal text that starts at position i, after its sign
scan_decimal(s, i) == scan_fraction(s, digits_at(s, i), skip_class(s, i, DIGITS))

Finite(neg, int, frac) ==
    [finite |-> TRUE,
     num |-> Number("float", neg, strip_leading_zeros(int), strip_trailing_zeros(frac))]

Infinite(neg) == [finite |-> FALSE, num |-> Number("float", neg, "inf", "")]

NaN == [finite |-> FALSE, num |-> Number("float", FALSE, "nan", "")]

\* the f64 of int.frac x 10^exp, lead being the number of zeros int.frac starts with
shifted(neg, int, frac, exp, lead) ==
    IF lead = Len(int) + Len(frac) \/ Len(int) - lead + exp < F64_MIN_10_EXP
    THEN Finite(FALSE, "0", "")
    ELSE IF Len(int) - lead + exp > F64_MAX_10_EXP THEN Infinite(neg)
    ELSE IF exp >= Len(frac) THEN Finite(neg, int \o frac \o zeros(exp - Len(frac)), "")
    ELSE IF exp >= 0
    THEN Finite(neg, int \o SubSeq(frac, 1, exp), SubSeq(frac, exp + 1, Len(frac)))
    ELSE IF 0 - exp >= Len(int) THEN Finite(neg, "0", zeros((0 - exp) - Len(int)) \o int \o frac)
    ELSE Finite(neg, SubSeq(int, 1, Len(int) + exp),
                SubSeq(int, Len(int) + exp + 1, Len(int)) \o frac)

\* the f64 nearest to the scanned decimal: [finite, num]
to_f64(neg, sc) ==
    shifted(neg, sc.int, sc.frac,
            IF sc.eneg THEN 0 - to_nat(sc.edigits) ELSE to_nat(sc.edigits),
            skip_class(sc.int \o sc.frac, 1, {"0"}) - 1)

\* digits with an optional fraction and exponent, and nothing after them
f64_of_scan(neg, body, sc) ==
    IF sc.end = Len(body) + 1 /\ sc.int \o sc.frac # "" /\ (sc.e => sc.edigits # "")
    THEN Some(to_f64(neg, sc))
    ELSE None

f64_of_body(neg, body, lower) ==
    IF lower \in {"inf", "infinity"} THEN Some(Infinite(neg))
    ELSE IF lower = "nan" THEN Some(NaN)
    ELSE f64_of_scan(neg, body, scan_decimal(body, 1))

f64_unsigned(neg, body) == f64_of_body(neg, body, to_lowercase(body))

\* <f64 as FromStr>::from_str: Option of [finite, num]
parse_f64(s) ==
    IF at(s, 1, "-") \/ at(s, 1, "+")
    THEN f64_unsigned(at(s, 1, "-"), SubSeq(s, 2, Len(s)))
    ELSE f64_unsigned(FALSE, s)

(* serde_json::Value; each variant has a field of its own, so that values of *)
(* different variants compare as different                                 *)
JNull == [t |-> "null"]
JBool(b) == [t |-> "bool", bool |-> b]
JNumber(n) == [t |-> "number", number |-> n]
JString(s) == [t |-> "string", string |-> s]
JArray(elems) == [t |-> "array", array |-> elems]
JObject(map) == [t |-> "object", object |-> map]

\* serde_json::Map: a function from the keys; insert replaces the value of a key
EmptyMap == [k \in {} |-> JNull]
insert(map, key, value) == (key :> value) @@ map

\* json!({ "answer": value })
answer(value) == JObject(insert(EmptyMap, "answer", value))

\* what a parser returns: [ok, val, pos], pos the position after what it read
Parsed(val, pos) == [ok |-> TRUE, val |-> val, pos |-> pos]
Failed == [ok |-> FALSE, val |-> JNull, pos |-> 0]

\* the largest number of digits that always fits u64 / i64; longer integers are
\* taken as f64
MAX_INT_DIGITS == 18

\* a number that is out of the range of f64 is an error
finite_number(f, pos) == IF f.finite THEN Parsed(JNumber(f.num), pos) ELSE Failed

\* -? (0 | [1-9][0-9]*) (. [0-9]+)? ([eE] [+-]? [0-9]+)?, the part after the sign scanned
json_number(neg, sc) ==
    IF \/ sc.int = ""
       \/ (Len(sc.int) > 1 /\ CharAt(sc.int, 1) = "0")
       \/ (sc.dot /\ sc.frac = "")
       \/ (sc.e /\ sc.edigits = "")
    THEN Failed
    ELSE IF ~sc.dot /\ ~sc.e /\ Len(sc.int) <= MAX_INT_DIGITS /\ ~(neg /\ sc.int = "0")
    THEN Parsed(JNumber(Number("int", neg, sc.int, "")), sc.end)
    ELSE finite_number(to_f64(neg, sc), sc.end)

\* a JSON number at position i
parse_number(s, i) ==
    IF at(s, i, "-") THEN json_number(TRUE, scan_decimal(s, i + 1))
    ELSE json_number(FALSE, scan_decimal(s, i))

HEX == Chars("0123456789abcdefABCDEF")

Escape(str, len) == [ok |-> TRUE, str |-> str, len |-> len]
BadEscape == [ok |-> FALSE, str |-> "", len |-> 0]

\* the character the escape at position j stands for, c being the character after
\* the '\'; \b and \uXXXX, which a TLA+ string cannot hold, are kept as the escape
unescape(s, j, c) ==
    IF c \in {"\"", "\\", "/"} THEN Escape(c, 2)
    ELSE IF c = "n" THEN Escape("\n", 2)
    ELSE IF c = "t" THEN Escape("\t", 2)
    ELSE IF c = "r" THEN Escape("\r", 2)
    ELSE IF c = "f" THEN Escape("\f", 2)
    ELSE IF c = "b" THEN Escape("\\b", 2)
    ELSE IF c = "u" /\ j + 5 <= Len(s) /\ \A k \in (j + 2)..(j + 5) : CharAt(s, k) \in HEX
    THEN Escape("\\u" \o to_lowercase(SubSeq(s, j + 2, j + 5)), 6)
    ELSE BadEscape

CONTROL == Chars("\n\t\r\f")

StrFailed == [ok |-> FALSE, val |-> "", pos |-> 0]

RECURSIVE parse_str(_, _, _), after_escape(_, _, _, _)

\* the rest of a string literal from position j, acc the characters read so far
parse_str(s, j, acc) ==
    IF j > Len(s) THEN StrFailed
    ELSE IF CharAt(s, j) = "\"" THEN [ok |-> TRUE, val |-> acc, pos |-> j + 1]
    ELSE IF CharAt(s, j) \in CONTROL THEN StrFailed
    ELSE IF CharAt(s, j) = "\\"
    THEN after_escape(s, j, acc, IF j + 1 <= Len(s) THEN unescape(s, j, CharAt(s, j + 1))
                                 ELSE BadEscape)
    ELSE parse_str(s, j + 1, acc \o CharAt(s, j))

after_escape(s, j, acc, esc) ==
    IF esc.ok THEN parse_str(s, j + esc.len, acc \o esc.str) ELSE StrFailed

string_value(str) == IF str.ok THEN Parsed(JString(str.val), str.pos) ELSE Failed

RECURSIVE parse_value(_, _), parse_array(_, _), parse_elements(_, _, _), more_elements(_, _, _),
          next_element(_, _, _), parse_object(_, _), parse_members(_, _, _),
          member_colon(_, _, _), member_value(_, _, _, _), more_members(_, _, _, _),
          next_member(_, _, _)

\* a JSON value at position i
parse_value(s, i) ==
    IF i > Len(s) THEN Failed
    ELSE IF at(s, i, "null") THEN Parsed(JNull, i + 4)
    ELSE IF at(s, i, "true") THEN Parsed(JBool(TRUE), i + 4)
    ELSE IF at(s, i, "false") THEN Parsed(JBool(FALSE), i + 5)
    ELSE IF CharAt(s, i) = "-" \/ CharAt(s, i) \in DIGITS THEN parse_number(s, i)
    ELSE IF CharAt(s, i) = "\"" THEN string_value(parse_str(s, i + 1, ""))
    ELSE IF CharAt(s, i) = "[" THEN parse_array(s, skip_class(s, i + 1, WHITESPACE))
    ELSE IF CharAt(s, i) = "{" THEN parse_object(s, skip_class(s, i + 1, WHITESPACE))
    ELSE Failed

\* an array, j the position after '[' and the white space
parse_array(s, j) ==
    IF at(s, j, "]") THEN Parsed(JArray(<<>>), j + 1) ELSE parse_elements(s, j, <<>>)

\* the elements of an array from position i on, up to the closing bracket
parse_elements(s, i, acc) == more_elements(s, acc, parse_value(s, i))

more_elements(s, acc, elem) ==
    IF elem.ok THEN next_element(s, Append(acc, elem.val), skip_class(s, elem.pos, WHITESPACE))
    ELSE Failed

next_element(s, acc, j) ==
    IF at(s, j, "]") THEN Parsed(JArray(acc), j + 1)
    ELSE IF at(s, j, ",") THEN parse_elements(s, skip_class(s, j + 1, WHITESPACE), acc)
    ELSE Failed

\* an object, j the position after '{' and the white space
parse_object(s, j) ==
    IF at(s, j, "}") THEN Parsed(JObject(EmptyMap), j + 1) ELSE parse_members(s, j, EmptyMap)

\* the members of an object from position i on, up to the closing brace
parse_members(s, i, acc) ==
    IF at(s, i, "\"") THEN member_colon(s, acc, parse_str(s, i + 1, "")) ELSE Failed

member_colon(s, acc, key) ==
    IF key.ok THEN member_value(s, acc, key.val, skip_class(s, key.pos, WHITESPACE)) ELSE Failed

member_value(s, acc, key, colon) ==
    IF at(s, colon, ":")
    THEN more_members(s, acc, key, parse_value(s, skip_class(s, colon + 1, WHITESPACE)))
    ELSE Failed

more_members(s, acc, key, member) ==
    IF member.ok
    THEN next_member(s, insert(acc, key, member.val), skip_class(s, member.pos, WHITESPACE))
    ELSE Failed

next_member(s, acc, j) ==
    IF at(s, j, "}") THEN Parsed(JObject(acc), j + 1)
    ELSE IF at(s, j, ",") THEN parse_members(s, skip_class(s, j + 1, WHITESPACE), acc)
    ELSE Failed

\* one value and, after it, white space only
whole_text(s, parsed) ==
    IF parsed.ok /\ skip_class(s, parsed.pos, WHITESPACE) = Len(s) + 1 THEN Some(parsed.val)
    ELSE None

\* serde_json::from_str::<Value>(s).ok()
from_str(s) == whole_text(s, parse_value(s, skip_class(s, 1, WHITESPACE)))

(* The regular expressions of the strategies, matched as the regex crate matches *)
(* them: the leftmost start position, and at that position the first way the     *)
(* pattern's greedy and lazy operators find.                                     *)

\* \s of a regex (the texts have no vertical tab and no white space beyond ASCII)
SPACE == WHITESPACE \cup Chars("\f")
COLON_SPACE == SPACE \cup {":"}

Min(S) == CHOOSE x \in S : \A y \in S : x <= y
Max(S) == CHOOSE x \in S : \A y \in S : x >= y

\* Regex::captures: matches[i] being the match anchored at position i, the match
\* at the leftmost position where there is one
leftmost(matches) ==
    LET hits == {i \in DOMAIN matches : IsSome(matches[i])}
    IN  IF hits = {} THEN None ELSE matches[Min(hits)]

\* the first of a sequence of options that is Some
RECURSIVE first_some(_)
first_some(options) ==
    IF options = <<>> THEN None
    ELSE IF IsSome(Head(options)) THEN Head(options)
    ELSE first_some(Tail(options))

\* the fence of a code block; "~" stands for the backtick, which a TLA+ string
\* cannot hold (no text uses "~" for anything else)
FENCE == "~~~"

\* ([\s\S]*?)\nFENCE from position c: the capture ends at the first '\n' FENCE
capture_to_fence(s, c) == Some(SubSeq(s, c, find_from(s, "\n" \o FENCE, c) - 1))

\* \s*\n from position j: \s* gives white space back until a '\n' follows it, the
\* last '\n' of the run first; taken is the first after which the rest matches
block_after(s, starts) == IF starts = {} THEN None ELSE capture_to_fence(s, Max(starts))

\* FENCE(?:json)?\s*\n([\s\S]*?)\nFENCE with \s* at position j: Option of capture 1
block_from(s, j) ==
    block_after(s, {c \in (j + 1)..skip_class(s, j, SPACE) :
                       CharAt(s, c - 1) = "\n" /\ find_from(s, "\n" \o FENCE, c) # 0})

\* the same anchored at position i
match_code_block(s, i) ==
    IF at(s, i, FENCE)
    THEN IF at(s, i + 3, "json") THEN block_from(s, i + 7) ELSE block_from(s, i + 3)
    ELSE None

\* lines 151-156
extract_json_code_block(text) ==
    leftmost([i \in 1..Len(text) |-> match_code_block(text, i)])

\* [:\s]+ from position from, which ends at position to - 1
positions_after(from, to) == IF to > from THEN <<to>> ELSE <<>>

\* \s+is[:\s]+ from position a, the white space ending at b - 1
with_is(s, a, b) ==
    IF b > a /\ at(s, b, "is") THEN positions_after(b + 2, skip_class(s, b + 2, COLON_SPACE))
    ELSE <<>>

\* (?:\s+is)?[:\s]+ from position a: the positions after it, in the order the regex
\* tries them (with "is" first)
after_word(s, a) ==
    with_is(s, a, skip_class(s, a, SPACE)) \o positions_after(a, skip_class(s, a, COLON_SPACE))

\* (?:word|...)(?:\s+is)?[:\s]+ anchored at position i; no word is the start of another
after_cue(s, i, words) ==
    IF \E w \in words : at(s, i, w)
    THEN after_word(s, i + Len(CHOOSE w \in words : at(s, i, w)))
    ELSE <<>>

\* \d+\.?\d* from position d, the match starting at p and its first digits ending at e - 1
number_digits(s, p, d, e) ==
    IF e <= d THEN None
    ELSE IF at(s, e, ".") THEN Some(SubSeq(s, p, skip_class(s, e + 1, DIGITS) - 1))
    ELSE Some(SubSeq(s, p, e - 1))

\* -?\d+\.?\d* anchored at position p, every part greedy: Option of the match
number_at(s, p) ==
    IF p < 1 THEN None
    ELSE IF at(s, p, "-") THEN number_digits(s, p, p + 1, skip_class(s, p + 1, DIGITS))
    ELSE number_digits(s, p, p, skip_class(s, p, DIGITS))

numbers_at(s, after) == first_some([n \in 1..Len(after) |-> number_at(s, after[n])])

\* (?:answer|result|solution)(?:\s+is)?[:\s]+(-?\d+\.?\d*) anchored at position i
match_answer_number(s, i) == numbers_at(s, after_cue(s, i, {"answer", "result", "solution"}))

\* ^(-?\d+\.?\d*)$
match_just_number(s) == IF number_at(s, 1) = Some(s) THEN Some(s) ELSE None

is_word(s, i) == i >= 1 /\ i <= Len(s) /\ CharAt(s, i) \in WORD_CHARS

\* \b before position i
word_boundary(s, i) == is_word(s, i - 1) # is_word(s, i)

\* the capture of the third pattern ends in a digit, at position last, with only
\* white space between it and the end of the text
number_ending(s, i, last) ==
    IF /\ word_boundary(s, i)
       /\ i <= last
       /\ CharAt(s, last) \in DIGITS
       /\ number_at(s, i) = Some(SubSeq(s, i, last))
    THEN Some(SubSeq(s, i, last))
    ELSE None

\* \b(-?\d+\.?\d*)\b(?:\s*$) anchored at position i
match_number_at_end(s, i) == number_ending(s, i, Len(trim_end(s)))

\* num_str.as_str().parse::<f64>() of a capture
parse_capture(caps) == IF IsSome(caps) THEN parse_f64(Unwrap(caps)) ELSE None

\* lines 159-179: Option of an f64 [finite, num]; the patterns in their order, the
\* first whose capture parses
extract_number(text) ==
    or_else(parse_capture(leftmost([i \in 1..Len(text) |-> match_answer_number(text, i)])),
    or_else(parse_capture(match_just_number(text)),
            parse_capture(leftmost([i \in 1..Len(text) |-> match_number_at_end(text, i)]))))

\* Value::from(f64), Number::from_f64: a number that is not finite becomes null
from_f64(f) == IF f.finite THEN JNumber(f.num) ELSE JNull

\* variant: "true" and "false" recognised at the start of the text, as "yes" and "no" are
extract_boolean_prefix(text) ==
    LET text_lower == trim(to_lowercase(text))
    IN  IF starts_with(text_lower, "yes") \/ contains(text_lower, "answer is yes")
           \/ starts_with(text_lower, "true")
        THEN Some(TRUE)
        ELSE IF starts_with(text_lower, "no") \/ contains(text_lower, "answer is no")
                \/ starts_with(text_lower, "false")
        THEN Some(FALSE)
        ELSE None

\* lines 182-194
extract_boolean(text) ==
    LET text_lower == trim(to_lowercase(text))
    IN  IF starts_with(text_lower, "yes") \/ contains(text_lower, "answer is yes")
           \/ text_lower = "true"
        THEN Some(TRUE)
        ELSE IF starts_with(text_lower, "no") \/ contains(text_lower, "answer is no")
                \/ text_lower = "false"
        THEN Some(FALSE)
        ELSE None

UpperChar(c) ==
    LET k == find_from(LOWER, c, 1) IN IF k = 0 THEN c ELSE CharAt(UPPER, k)

letter_at(s, p) == IF p <= Len(s) /\ CharAt(s, p) \in LETTERS THEN Some(CharAt(s, p)) ELSE None

letters_at(s, after) == first_some([n \in 1..Len(after) |-> letter_at(s, after[n])])

\* (?:answer|choice)(?:\s+is)?[:\s]+([A-Za-z]) anchored at position i
match_choice(s, i) == letters_at(s, after_cue(s, i, {"answer", "choice"}))

\* m.as_str().to_uppercase()
uppercased(choice) == IF IsSome(choice) THEN Some(UpperChar(Unwrap(choice))) ELSE None

\* lines 197-203
extract_multiple_choice(text) ==
    uppercased(leftmost([i \in 1..Len(text) |-> match_choice(text, i)]))

\* str::replace(' ', "_")
RECURSIVE replace_spaces(_)
replace_spaces(s) ==
    IF s = "" THEN ""
    ELSE (IF CharAt(s, 1) = " " THEN "_" ELSE CharAt(s, 1)) \o replace_spaces(SubSeq(s, 2, Len(s)))

KEY_CHARS == LETTERS \cup SPACE

NoPair == [end |-> 0, key |-> "", value |-> ""]

\* (.+)$ from position q: the rest of the line, to position n - 1 or the end of the text
pair_line(s, i, k, q, n) ==
    [end |-> IF n = 0 THEN Len(s) ELSE n - 1,
     key |-> SubSeq(s, i, k - 1),
     value |-> SubSeq(s, q, IF n = 0 THEN Len(s) ELSE n - 1)]

\* \s*(.+)$ after the ':' at position k: \s* gives white space back until a
\* character other than '\n' follows it; starts are the positions it can stop at
pair_value(s, i, k, starts) ==
    IF starts = {} THEN NoPair
    ELSE pair_line(s, i, k, Max(starts), find_from(s, "\n", Max(starts)))

\* ([A-Za-z\s]+): from position i, the letters and white space ending at k - 1
pair_key(s, i, k) ==
    IF k > i /\ at(s, k, ":")
    THEN pair_value(s, i, k, {q \in (k + 1)..skip_class(s, k + 1, SPACE) :
                                 q <= Len(s) /\ CharAt(s, q) # "\n"})
    ELSE NoPair

\* (?m)^([A-Za-z\s]+):\s*(.+)$ anchored at position i: [end (0: no match), key, value].
\* The key runs from a line start to the ':' (over line ends, which \s matches)
match_pair(s, i) ==
    IF i = 1 \/ CharAt(s, i - 1) = "\n" THEN pair_key(s, i, skip_class(s, i, KEY_CHARS))
    ELSE NoPair

RECURSIVE pairs_from(_, _, _), next_pair(_, _, _), insert_pair(_, _, _, _, _),
          insert_value(_, _, _, _, _, _, _)

\* the loop over captures_iter from position from on: Option of the map, None when
\* Number::from_f64(num)? returned
pairs_from(s, from, map) ==
    next_pair(s, map, {i \in from..Len(s) : match_pair(s, i).end > 0})

\* hits: the positions where a match starts
next_pair(s, map, hits) ==
    IF hits = {} THEN Some(map)
    ELSE insert_pair(s, map, match_pair(s, Min(hits)).end,
                     match_pair(s, Min(hits)).key, match_pair(s, Min(hits)).value)

\* lines 213-215
insert_pair(s, map, end, key, value) ==
    insert_value(s, map, end, replace_spaces(to_lowercase(trim(key))), trim(value),
                 parse_f64(trim(value)), extract_boolean(trim(value)))

\* lines 217-224
insert_value(s, map, end, key_str, value_str, num, bool_val) ==
    IF IsSome(num)
    THEN IF Unwrap(num).finite
         THEN pairs_from(s, end + 1, insert(map, key_str, JNumber(Unwrap(num).num)))
         ELSE None
    ELSE IF IsSome(bool_val)
    THEN pairs_from(s, end + 1, insert(map, key_str, JBool(Unwrap(bool_val))))
    ELSE pairs_from(s, end + 1, insert(map, key_str, JString(value_str)))

\* lines 228-232
object_of(map) ==
    IF IsSome(map) /\ DOMAIN Unwrap(map) # {} THEN Some(JObject(Unwrap(map))) ELSE None

\* lines 206-233
extract_key_value_pairs(text) == object_of(pairs_from(text, 1, EmptyMap))

\* lines 121-125: the content of the code block, when there is one, parsed as JSON
block_json(block) == IF IsSome(block) THEN from_str(Unwrap(block)) ELSE None

\* lines 128-130
number_answer(number) ==
    IF IsSome(number) THEN Some(answer(from_f64(Unwrap(number)))) ELSE None

\* lines 133-135
boolean_answer(boolean) == IF IsSome(boolean) THEN Some(answer(JBool(Unwrap(boolean)))) ELSE None

\* lines 138-140
choice_answer(choice) == IF IsSome(choice) THEN Some(answer(JString(Unwrap(choice)))) ELSE None

\* variant: the boolean strategy ahead of the number strategy
parse_model_output_boolean_first(raw_output) ==
    or_else(from_str(raw_output),
    or_else(block_json(extract_json_code_block(raw_output)),
    or_else(boolean_answer(extract_boolean(raw_output)),
    or_else(number_answer(extract_number(raw_output)),
    or_else(choice_answer(extract_multiple_choice(raw_output)),
            extract_key_value_pairs(raw_output))))))

\* variant: the number strategy ahead of the two JSON strategies
parse_model_output_number_first(raw_output) ==
    or_else(number_answer(extract_number(raw_output)),
    or_else(from_str(raw_output),
    or_else(block_json(extract_json_code_block(raw_output)),
    or_else(boolean_answer(extract_boolean(raw_output)),
    or_else(choice_answer(extract_multiple_choice(raw_output)),
            extract_key_value_pairs(raw_output))))))

\* lines 114-148: each strategy is tried when the ones before it gave nothing
parse_model_output(raw_output) ==
    or_else(from_str(raw_output),
    or_else(block_json(extract_json_code_block(raw_output)),
    or_else(number_answer(extract_number(raw_output)),
    or_else(boolean_answer(extract_boolean(raw_output)),
    or_else(choice_answer(extract_multiple_choice(raw_output)),
            extract_key_value_pairs(raw_output))))))


----------------------------------------------------------------------------
(* runner.rs: the judge *)

REASONING_MIN_LEN == 20

\* the characters of the texts below that take two bytes in UTF-8; every other
\* character of these texts is ASCII and takes one
TWO_BYTE_CHARS == "é"

\* str::len: the length of the UTF-8 encoding in bytes, not in characters
len(s) == Len(s) + Cardinality({i \in 1..Len(s) : CharAt(s, i) \in Chars(TWO_BYTE_CHARS)})

judge_verdict(response_lower) ==
    IF contains(response_lower, "verdict: pass")
       \/ (starts_with(response_lower, "yes") \/ contains(response_lower, "yes, they"))
    THEN "Pass"
    ELSE IF contains(response_lower, "verdict: fail")
            \/ (starts_with(response_lower, "no") \/ contains(response_lower, "no, they"))
    THEN "Fail"
    ELSE "Uncertain"

\* a threshold that a reply of REASONING_MIN_LEN bytes reaches
judge_reasoning_inclusive(resp_text) ==
    IF len(resp_text) >= REASONING_MIN_LEN THEN Some(resp_text) ELSE None

judge_reasoning(resp_text) ==
    IF len(resp_text) > REASONING_MIN_LEN THEN Some(resp_text) ELSE None

parse_judge_response(resp_text) ==
    [judge_model |-> "unknown",
     verdict |-> judge_verdict(to_lowercase(resp_text)),
     reasoning |-> judge_reasoning(resp_text),
     confidence |-> None]

DEFAULT_CRITERIA == "The outputs should convey the same core meaning, even if phrased differently."

base_criteria(criteria) == IF IsSome(criteria) THEN Unwrap(criteria) ELSE DEFAULT_CRITERIA

\* variant: a built-in template that fills both slots with the expected text
create_judge_prompt_expected_twice(expected, actual, criteria) ==
    "You are an expert evaluator comparing two text outputs.\n\nEVALUATION CRITERIA:\n"
    \o base_criteria(criteria)
    \o "\n\nEXPECTED OUTPUT:\n"
    \o expected
    \o "\n\nACTUAL OUTPUT:\n"
    \o expected
    \o "\n\nYour evaluation:"

\* the built-in template: format! with the three arguments in this order
create_judge_prompt(expected, actual, criteria) ==
    "You are an expert evaluator comparing two text outputs.\n\nEVALUATION CRITERIA:\n"
    \o base_criteria(criteria)
    \o "\n\nEXPECTED OUTPUT:\n"
    \o expected
    \o "\n\nACTUAL OUTPUT:\n"
    \o actual
    \o "\n\nINSTRUCTIONS:\n1. Carefully compare both outputs\n"
    \o "2. Consider semantic equivalence, not just exact wording\n"
    \o "3. Provide your verdict as the first line: \"Verdict: PASS\" or \"Verdict: FAIL\"\n"
    \o "4. Then explain your reasoning in 2-3 sentences\n\nYour evaluation:"

----------------------------------------------------------------------------
(* database.rs: table judge_prompts *)

JudgePrompt(version, template, is_active) ==
    [version |-> version, template |-> template, is_active |-> is_active]

\* variant: a query without the WHERE is_active = TRUE clause
get_latest_judge_prompt(rows, io_ok) ==
    IF ~io_ok THEN {Err("Database")}
    ELSE IF rows # {} THEN {Ok(r) : r \in rows}
    ELSE {Err("RowNotFound")}

\* SELECT ... WHERE is_active = TRUE LIMIT 1, fetch_one: the possible results.
\* io_ok = FALSE: the query fails in the pool or the connection.
get_active_judge_prompt(rows, io_ok) ==
    IF ~io_ok THEN {Err("Database")}
    ELSE IF \E r \in rows : r.is_active
         THEN {Ok(r) : r \in {q \in rows : q.is_active}}
         ELSE {Err("RowNotFound")}

\* variant: the insert without the UPDATE ... SET is_active = FALSE before it
create_judge_prompt_rows_keep_active(rows, template, set_active) ==
    LET versions == {r.version : r \in rows}
        next_version == IF versions = {} THEN 1
                        ELSE 1 + CHOOSE v \in versions : \A w \in versions : w <= v
    IN  rows \cup {JudgePrompt(next_version, template, set_active)}

\* the rows after create_judge_prompt's transaction commits
create_judge_prompt_rows(rows, template, set_active) ==
    LET kept == IF set_active
                THEN {JudgePrompt(r.version, r.template, FALSE) : r \in rows}
                ELSE rows
        versions == {r.version : r \in rows}
        next_version == IF versions = {} THEN 1
                        ELSE 1 + CHOOSE v \in versions : \A w \in versions : w <= v
    IN  kept \cup {JudgePrompt(next_version, template, set_active)}

\* the rows after set_active_judge_prompt: unchanged when the version does not
\* exist (fetch_one fails, the transaction is dropped and rolled back)
set_active_judge_prompt_rows(rows, version) ==
    IF \E r \in rows : r.version = version
    THEN {JudgePrompt(r.version, r.template, r.version = version) : r \in rows}
    ELSE rows

\* variant: the transaction without the SELECT that checks the version
set_active_judge_prompt_unchecked(rows, version) ==
    [rows |-> {JudgePrompt(r.version, r.template, r.version = version) : r \in rows},
     result |-> Ok("()")]

\* database::set_active_judge_prompt on a database that answers: fetch_one finds no
\* row for the version and ? returns its error before any UPDATE, the dropped
\* transaction rolls back; else both UPDATEs are committed
set_active_judge_prompt(rows, version) ==
    IF \E r \in rows : r.version = version
    THEN [rows |-> set_active_judge_prompt_rows(rows, version), result |-> Ok("()")]
    ELSE [rows |-> rows, result |-> Err("RowNotFound")]

----------------------------------------------------------------------------
(* Template resolution of run_eval_with_pool.  load is None when there is  *)
(* no pool, else Some(result of get_active_judge_prompt).                  *)

judge_template_vars(expected, actual, criteria) ==
    JObject([k \in {"criteria", "expected", "actual"} |->
        CASE k = "criteria" -> JString(base_criteria(criteria))
          [] k = "expected" -> JString(expected)
          [] k = "actual" -> JString(actual)])

\* the stored template the load produced, None when the built-in one is used
loaded_template(load) ==
    IF IsSome(load) /\ IsOk(Unwrap(load)) THEN Unwrap(load).val ELSE None

template_version(load) ==
    IF IsSome(loaded_template(load)) THEN Some(Unwrap(loaded_template(load)).version) ELSE None

create_judge_prompt_with_pool(load, expected, actual, criteria) ==
    IF IsSome(loaded_template(load))
    THEN [prompt |-> render_template(Unwrap(loaded_template(load)).template,
                                     judge_template_vars(expected, actual, criteria)),
          version |-> template_version(load)]
    ELSE [prompt |-> create_judge_prompt(expected, actual, criteria), version |-> None]

----------------------------------------------------------------------------
(* runner.rs: run_eval, as the pieces between its suspension points *)

Call(kind, provider, model, prompt) ==
    [kind |-> kind, provider |-> provider, model |-> model, prompt |-> prompt]

\* variant: every failure of the primary call wrapped as ModelFailure
primary_failure_wrap_all(e, rendered) == ModelFailure(rendered.model)

\* lines 306-316: the error arms of the match on the primary call
primary_failure(e, rendered) ==
    IF e.kind = "ProviderNotFound" THEN e ELSE ModelFailure(rendered.model)

\* variant: the judge section entered on judge_model alone, expected defaulting to ""
judge_args_model_only(rendered) ==
    IF IsSome(rendered.judge_model)
    THEN Some([expected |-> IF IsSome(rendered.expected) THEN Unwrap(rendered.expected) ELSE "",
               judge_model |-> Unwrap(rendered.judge_model)])
    ELSE None

\* lines 332-333: if let (Some(expected), Some(judge_model)) = (...), the bindings
judge_args(rendered) ==
    IF IsSome(rendered.expected) /\ IsSome(rendered.judge_model)
    THEN Some([expected |-> Unwrap(rendered.expected), judge_model |-> Unwrap(rendered.judge_model)])
    ELSE None

NoJudge == [judge_result |-> None, judge_latency_ms |-> None, judge_token_usage |-> None]

\* variant: the time spent on the judge call is kept when the call failed
judge_outcome_timed(g, judge_model) ==
    IF IsOk(g)
    THEN LET t == Unwrap(g.val)
         IN  [judge_result |-> Some([parse_judge_response(t.text) EXCEPT !.judge_model = judge_model]),
              judge_latency_ms |-> Some(t.latency_ms),
              judge_token_usage |-> Some(t.usage)]
    ELSE [NoJudge EXCEPT !.judge_latency_ms = Some(0)]

\* lines 353-378: the match on the judge call's result
judge_outcome(g, judge_model) ==
    IF IsOk(g)
    THEN LET t == Unwrap(g.val)
         IN  [judge_result |-> Some([parse_judge_response(t.text) EXCEPT !.judge_model = judge_model]),
              judge_latency_ms |-> Some(t.latency_ms),
              judge_token_usage |-> Some(t.usage)]
    ELSE NoJudge

(* the responses a provider can give *)
Usage(i, o) == [input |-> i, output |-> o]

Response(transport, status, body, text, usage, latency_ms) ==
    [transport |-> transport, status |-> status, body |-> body, text |-> text,
     usage |-> usage, latency_ms |-> latency_ms]

BatchResponses ==
    {Response("ok", 200, "text", "4", Some(Usage(7, 1)), 120),
     Response("ok", 200, "text", "Verdict: PASS\nBoth indicate four.", None, 80),
     Response("ok", 500, "invalid", "", None, 30)}

\* the answers of a judge in a batch: the same and one that fails the output
JudgeResponses ==
    BatchResponses \cup {Response("ok", 200, "text", "Verdict: FAIL\nThey differ.", None, 45)}

Responses ==
    BatchResponses \cup
    {Response("ok", 200, "text", "", None, 40),
     Response("ok", 200, "no_text", "", None, 40),
     Response("ok", 200, "error", "", None, 40),
     Response("error", 0, "invalid", "", None, 10)}

\* line 322: parse_model_output of each text a response can carry, computed once
parsed_outputs == [text \in {resp.text : resp \in Responses} |-> parse_model_output(text)]

\* lines 388-405 (timestamp and total_latency_ms are wall-clock readings, left out)
EvalResult(rendered, p, j, version) ==
    [model |-> rendered.model,
     prompt |-> rendered.prompt,
     model_output |-> p.text,
     parsed_output |-> parsed_outputs[p.text],
     expected |-> rendered.expected,
     judge_result |-> j.judge_result,
     latency_ms |-> p.latency_ms,
     judge_latency_ms |-> j.judge_latency_ms,
     token_usage |-> IF IsSome(p.usage.input_tokens) \/ IsSome(p.usage.output_tokens)
                     THEN Some(p.usage) ELSE None,
     judge_token_usage |-> j.judge_token_usage,
     judge_prompt_version |-> version]

\* variant: the judge call's error propagated with ? as JudgeFailure
finish_eval_propagating(rendered, p, g, judge_model, version) ==
    IF IsErr(g)
    THEN Err(JudgeFailure(judge_model, Unwrap(g.err)))
    ELSE Ok(EvalResult(rendered, p, judge_outcome(g, judge_model), version))

\* lines 353-405: the evaluation's value once the judge call g has returned
finish_eval(rendered, p, g, judge_model, version) ==
    Ok(EvalResult(rendered, p, judge_outcome(g, judge_model), version))

\* what get_active_judge_prompt can hand to run_eval_with_pool in this state
LoadOutcomes ==
    IF db_pool
    THEN {Some(r) : r \in get_active_judge_prompt(judge_prompts, TRUE)
                          \cup get_active_judge_prompt(judge_prompts, FALSE)}
    ELSE {None}

\* call_provider, lines 244-278, given the provider's answer to the request it sends
\* (not read when the provider has no configuration)
call_provider(cfg, provider_name, resp) ==
    LET l == provider_lookup(cfg, provider_name)
    IN  IF IsErr(l) THEN Err(Unwrap(l.err)) ELSE generate(Unwrap(l.val), Unwrap(resp))

\* run_eval, lines 281-406, start to end for one request on its own, given the
\* answers of the providers it calls and the template load
run_eval(cfg, eval, primary_resp, load, judge_resp) ==
    LET rendered == Unwrap(render(eval).val)
        g == call_provider(cfg, parse_model_string(rendered.model).provider, primary_resp)
    IN  IF IsErr(render(eval)) THEN render(eval)
        ELSE IF IsErr(g) THEN Err(primary_failure(Unwrap(g.err), rendered))
        ELSE IF ~IsSome(judge_args(rendered))
        THEN Ok(EvalResult(rendered, Unwrap(g.val), NoJudge, None))
        ELSE LET args == Unwrap(judge_args(rendered))
                 jg == call_provider(cfg, parse_model_string(args.judge_model).provider, judge_resp)
             IN  finish_eval(rendered, Unwrap(g.val), jg, args.judge_model,
                             template_version(Unwrap(load)))

NewTask ==
    [pc |-> "init", hung |-> FALSE, rendered |-> None, primary_resp |-> None,
     tmpl_load |-> None, judge_resp |-> None, result |-> None]

Done(t, res) == [t EXCEPT !.pc = "done", !.result = Some(res)]

----------------------------------------------------------------------------
(* api/handlers/ws.rs: WsBroker and WsConnection *)

\* no WebSocket connection has been opened
NoConnections == <<>>

\* a WsConnection that ws_handler has not started yet: the state of the actor, of the
\* register task and of the unregister task it spawns, and the EvalUpdate messages
\* its mailbox has accepted
NewConnection == [actor |-> "new", register |-> "none", unregister |-> "none", mailbox |-> <<>>]

\* Addr::do_send: the message is queued whatever the capacity of the mailbox, and is
\* dropped without an error when the mailbox is closed (the actor has stopped)
do_send(connection, msg) ==
    IF connection.actor = "started"
    THEN [connection EXCEPT !.mailbox = Append(@, msg)]
    ELSE connection

\* variant: the loop ends at the first client whose mailbox is closed
RECURSIVE send_until_closed(_, _, _, _)
send_until_closed(cl, k, conns, msg) ==
    IF k > Len(cl) \/ conns[cl[k]].actor # "started" THEN conns
    ELSE send_until_closed(cl, k + 1, [conns EXCEPT ![cl[k]] = do_send(@, msg)], msg)

broadcast_until_closed(cl, conns, msg) == send_until_closed(cl, 1, conns, msg)

\* the loop of WsBroker::broadcast from client k on
RECURSIVE send_from(_, _, _, _)
send_from(cl, k, conns, msg) ==
    IF k > Len(cl) THEN conns
    ELSE send_from(cl, k + 1, [conns EXCEPT ![cl[k]] = do_send(@, msg)], msg)

\* WsBroker::broadcast, under the read lock of clients
broadcast(cl, conns, msg) == send_from(cl, 1, conns, msg)

\* the broadcasts of the loop of run_batch, one per item
RECURSIVE broadcast_each(_, _, _)
broadcast_each(cl, conns, msgs) ==
    IF msgs = <<>> THEN conns
    ELSE broadcast_each(cl, broadcast(cl, conns, Head(msgs)), Tail(msgs))

----------------------------------------------------------------------------
(* Inputs *)

PROMPT == "What is 2+2?"

EvalConfig(model, prompt, expected, judge_model, criteria, tags, metadata) ==
    [model |-> model, prompt |-> prompt, expected |-> expected, judge_model |-> judge_model,
     criteria |-> criteria, tags |-> tags, metadata |-> metadata]

\* evals.rs lines 49-57: the EvalConfig the single handler builds from a RunEvalRequest
FromRequest(model, expected, judge_model, criteria) ==
    EvalConfig(model, PROMPT, expected, judge_model, criteria, <<>>, None)

Configs == {{"gemini"}, {"gemini", "openai"}, {"openai"}}

SingleRequests ==
    {FromRequest("gemini:flash", Some("4"), Some("gemini:pro"), None),
     FromRequest("gemini:flash", Some("4"), Some("openai:gpt-4o"), Some("Exact match.")),
     FromRequest("flash", None, Some("gemini:pro"), None),
     FromRequest("openai:gpt-4o", Some("4"), None, None),
     FromRequest("mistral:7b", Some("4"), Some("gemini:pro"), None)}

BatchRequests ==
    {EvalConfig("gemini:flash", "What is {{a}}+{{ b }}?", Some("{{sum}}"), Some("gemini:pro"),
                Some("The same number as {{sum}}."), <<"math", "{{a}}">>,
                Some(JObject([k \in {"a", "b", "sum"} |-> JString(IF k = "sum" THEN "4" ELSE "2")]))),
     FromRequest("openai:gpt-4o", Some("4"), None, None),
     FromRequest("flash", Some("4"), Some("mistral:7b"), None)}

Templates ==
    {"Criteria: {{criteria}}\nExpected: {{expected}}\nActual: {{ actual }}\nVerdict?",
     "Compare {{actual}} with {{expected}} under {{criteria}}."}

----------------------------------------------------------------------------
(* The steps of one run_eval future *)

\* first poll: render, parse the model string, dispatch (lines 286-305).  join_all
\* polls its futures in input order the first time.
StartEval(i) ==
    /\ task[i].pc = "init"
    /\ \A j \in 1..(i - 1) : task[j].pc # "init"
    /\ LET rendered == Unwrap(render(evals[i]).val)
           pm == parse_model_string(rendered.model)
           l == provider_lookup(config, pm.provider)
       IN  IF IsErr(render(evals[i]))
           THEN /\ task' = [task EXCEPT ![i] = Done(@, render(evals[i]))]
                /\ completed' = Append(completed, i)
                /\ calls' = calls
           ELSE IF IsErr(l)
           THEN /\ task' = [task EXCEPT ![i] =
                               Done([@ EXCEPT !.rendered = Some(rendered)],
                                    Err(primary_failure(Unwrap(l.err), rendered)))]
                /\ completed' = Append(completed, i)
                /\ calls' = calls
           ELSE /\ task' = [task EXCEPT ![i].pc = "primary_wait", ![i].rendered = Some(rendered)]
                /\ calls' = [calls EXCEPT ![i] =
                                Append(@, Call("primary", Unwrap(l.val), pm.model, rendered.prompt))]
                /\ completed' = completed
    /\ UNCHANGED <<clients, connections, input, output, config, db_pool, judge_prompts, evals, results, response, updates, evaluations>>

\* variant: a failed primary call sent once more before giving up
PrimaryFailedRetry(i, t, e) ==
    IF Len(calls[i]) < 2
    THEN /\ task' = [task EXCEPT ![i] = t]
         /\ calls' = [calls EXCEPT ![i] = Append(@, calls[i][1])]
         /\ completed' = completed
    ELSE /\ task' = [task EXCEPT ![i] = Done(t, Err(ModelFailure(Unwrap(t.rendered).model)))]
         /\ completed' = Append(completed, i)
         /\ calls' = calls

\* lines 311-316: the primary call failed; the evaluation ends, nothing is sent again
PrimaryFailed(i, t, e) ==
    /\ task' = [task EXCEPT ![i] = Done(t, Err(primary_failure(e, Unwrap(t.rendered))))]
    /\ completed' = Append(completed, i)
    /\ calls' = calls

\* the primary call returns (lines 306-351): error arms, or the judge section up to
\* sending the judge call
PrimaryResponse(i, resp) ==
    /\ task[i].pc = "primary_wait"
    /\ ~task[i].hung
    /\ LET rendered == Unwrap(task[i].rendered)
           g == generate(calls[i][1].provider, resp)
           t == [task[i] EXCEPT !.primary_resp = Some(resp)]
       IN  IF IsErr(g)
           THEN PrimaryFailed(i, t, Unwrap(g.err))
           ELSE IF ~IsSome(judge_args(rendered))
           THEN /\ task' = [task EXCEPT ![i] =
                               Done(t, Ok(EvalResult(rendered, Unwrap(g.val), NoJudge, None)))]
                /\ completed' = Append(completed, i)
                /\ calls' = calls
           ELSE \E load \in LoadOutcomes :
                LET args == Unwrap(judge_args(rendered))
                    jp == create_judge_prompt_with_pool(load, args.expected, Unwrap(g.val).text,
                                                        rendered.criteria)
                    jm == parse_model_string(args.judge_model)
                    jl == provider_lookup(config, jm.provider)
                    tl == [t EXCEPT !.tmpl_load = Some(load)]
                IN  IF IsErr(jl)
                    THEN /\ task' = [task EXCEPT ![i] =
                                        Done(tl, finish_eval(rendered, Unwrap(g.val), Err(Unwrap(jl.err)),
                                                             args.judge_model, jp.version))]
                         /\ completed' = Append(completed, i)
                         /\ calls' = calls
                    ELSE /\ task' = [task EXCEPT ![i] = [tl EXCEPT !.pc = "judge_wait"]]
                         /\ calls' = [calls EXCEPT ![i] =
                                         Append(@, Call("judge", Unwrap(jl.val), jm.model, jp.prompt))]
                         /\ completed' = completed
    /\ UNCHANGED <<clients, connections, input, output, config, db_pool, judge_prompts, evals, results, response, updates, evaluations>>

\* the judge call returns (lines 353-405)
JudgeResponse(i, resp) ==
    /\ task[i].pc = "judge_wait"
    /\ ~task[i].hung
    /\ LET rendered == Unwrap(task[i].rendered)
           p == Unwrap(generate(calls[i][1].provider, Unwrap(task[i].primary_resp)).val)
           version == template_version(Unwrap(task[i].tmpl_load))
           g == generate(calls[i][2].provider, resp)
           t == [task[i] EXCEPT !.judge_resp = Some(resp)]
       IN  /\ task' = [task EXCEPT ![i] =
                          Done(t, finish_eval(rendered, p, g, Unwrap(judge_args(rendered)).judge_model,
                                              version))]
           /\ completed' = Append(completed, i)
    /\ UNCHANGED <<clients, connections, input, output, config, db_pool, judge_prompts, evals, calls, results, response, updates,
                   evaluations>>

\* the provider accepts the request and never answers; the client has no timeout
\* (state.rs line 26: Client::new()) and send().await has none around it
ProviderHangs(i) ==
    /\ task[i].pc \in {"primary_wait", "judge_wait"}
    /\ ~task[i].hung
    /\ task' = [task EXCEPT ![i].hung = TRUE]
    /\ UNCHANGED <<clients, connections, input, output, config, db_pool, judge_prompts, evals, calls, completed, results, response,
                   updates, evaluations>>

----------------------------------------------------------------------------
(* database.rs: judge prompt versions *)

CreateJudgePrompt ==
    /\ db_pool
    /\ Cardinality(judge_prompts) < MaxVersions
    /\ \E template \in Templates, set_active \in BOOLEAN :
          judge_prompts' = create_judge_prompt_rows(judge_prompts, template, set_active)
    /\ UNCHANGED <<clients, connections, input, output, config, db_pool, evals, task, calls, completed, results, response, updates,
                   evaluations>>

SetActiveJudgePrompt ==
    /\ db_pool
    /\ \E version \in 1..(MaxVersions + 1) :
          judge_prompts' = set_active_judge_prompt_rows(judge_prompts, version)
    /\ UNCHANGED <<clients, connections, input, output, config, db_pool, evals, task, calls, completed, results, response, updates,
                   evaluations>>

\* PUT /api/v1/judge-prompts/active, judge_prompts.rs lines 138-163; input is the
\* version of the SetActiveRequest
PutActiveJudgePrompt ==
    /\ response = None
    /\ IF db_pool
       THEN LET done == set_active_judge_prompt(judge_prompts, input)
            IN  /\ judge_prompts' = done.rows
                /\ response' = Some(IF IsOk(done.result)
                                    THEN [http_status |-> 200, body |-> "is now active"]
                                    ELSE [http_status |-> 500,
                                          body |-> "Failed to set active judge prompt"])
       ELSE /\ judge_prompts' = judge_prompts
            /\ response' = Some([http_status |-> 500, body |-> "Database not initialized"])
    /\ UNCHANGED <<clients, connections, input, output, config, db_pool, evals, task, calls,
                   completed, results, updates, evaluations>>

----------------------------------------------------------------------------
(* api/handlers/evals.rs *)

\* errors.rs: the #[error] messages (Display)
to_string(e) ==
    CASE e.kind = "ProviderNotFound" -> "Provider '" \o e.arg \o "' not found"
      [] e.kind = "ModelFailure" -> "Model '" \o e.arg \o "' failed to respond"
      [] OTHER -> e.kind

\* lines 114-118
status_code(e) ==
    IF e.kind \in {"ProviderNotFound", "Config"} THEN 400
    ELSE IF e.kind = "ModelFailure" THEN 400
    ELSE 500

\* lines 64-72 and 205-219
status_of(eval_result) ==
    IF IsSome(eval_result.judge_result)
    THEN CASE Unwrap(eval_result.judge_result).verdict = "Pass" -> "passed"
           [] Unwrap(eval_result.judge_result).verdict = "Fail" -> "failed"
           [] Unwrap(eval_result.judge_result).verdict = "Uncertain" -> "uncertain"
    ELSE "completed"

verdict_of(eval_result) ==
    IF IsSome(eval_result.judge_result)
    THEN Some(Unwrap(eval_result.judge_result).verdict)
    ELSE None

EvalUpdate(id, status, model, verdict, latency_ms) ==
    [id |-> id, status |-> status, model |-> model, verdict |-> verdict, latency_ms |-> latency_ms]

\* EvalResponse; models::ApiResponse, the row save_evaluation stores, has the same content
EvalResponse(id, status, result, error) ==
    [id |-> id, status |-> status, result |-> result, error |-> error]

\* variant: a save that fails turns the response into a server error
fail_on_save_error(resp, save_failed) ==
    IF save_failed THEN [resp EXCEPT !.http_status = 500] ELSE resp

\* lines 98-104, 146-152, 242-244 and 275-277: an Err of save_evaluation is logged,
\* the response stays as it was built
log_save_error(resp, save_failed) == resp

\* run_eval, lines 62-162, from the point run_eval_with_pool has returned
RunEvalRespond ==
    /\ Len(evals) = 1
    /\ task[1].pc = "done"
    /\ response = None
    /\ LET res == Unwrap(task[1].result)
           status == IF IsOk(res) THEN status_of(Unwrap(res.val)) ELSE "error"
           body == EvalResponse(1, status, res.val,
                                IF IsOk(res) THEN None ELSE Some(to_string(Unwrap(res.err))))
           update == IF IsOk(res)
                     THEN EvalUpdate(1, status, Some(evals[1].model), verdict_of(Unwrap(res.val)),
                                     Some(Unwrap(res.val).latency_ms))
                     ELSE EvalUpdate(1, "error", Some(evals[1].model), None, None)
           http == IF IsOk(res) THEN 200
                   ELSE IF status_code(Unwrap(res.err)) = 400 THEN 400 ELSE 500
       IN  /\ updates' = Append(updates, update)
           /\ connections' = broadcast(clients, connections, update)
           /\ \E saved \in (IF db_pool THEN BOOLEAN ELSE {FALSE}) :
                 /\ evaluations' = IF saved THEN evaluations \cup {body} ELSE evaluations
                 /\ response' = Some(log_save_error([http_status |-> http, body |-> body],
                                                    db_pool /\ ~saved))
    /\ UNCHANGED <<clients, input, output, config, db_pool, judge_prompts, evals, task, calls, completed, results>>

\* variant: the outputs in the order the futures finished (FuturesUnordered)
join_all_by_arrival(t) ==
    IF \A i \in DOMAIN t : t[i].pc = "done"
    THEN Some([k \in DOMAIN t |-> Unwrap(t[completed[k]].result)])
    ELSE None

\* variant: future::try_join_all, ready with the first error alone as soon as one
\* future fails, the others dropped
try_join_all(t) ==
    IF \E i \in DOMAIN t : t[i].pc = "done" /\ IsErr(Unwrap(t[i].result))
    THEN Some(<<Unwrap(t[CHOOSE i \in DOMAIN t :
                            t[i].pc = "done" /\ IsErr(Unwrap(t[i].result))].result)>>)
    ELSE IF \A i \in DOMAIN t : t[i].pc = "done"
    THEN Some([i \in DOMAIN t |-> Unwrap(t[i].result)])
    ELSE None

\* runner.rs lines 417-427: future::join_all, Pending (None) until every future is
\* done, then the outputs in the order of the futures
join_all(t) ==
    IF \A i \in DOMAIN t : t[i].pc = "done"
    THEN Some([i \in DOMAIN t |-> Unwrap(t[i].result)])
    ELSE None

JoinAll ==
    /\ results = None
    /\ IsSome(join_all(task))
    /\ results' = join_all(task)
    /\ UNCHANGED <<clients, connections, input, output, config, db_pool, judge_prompts, evals, task, calls, completed, response,
                   updates, evaluations>>

BatchAcc ==
    [completed |-> 0, passed |-> 0, failed |-> 0,
     total_model_latency |-> 0, model_latency_count |-> 0,
     total_judge_latency |-> 0, judge_latency_count |-> 0,
     responses |-> <<>>, updates |-> <<>>]

\* one iteration of the loop of run_batch, lines 192-283
batch_item(acc, id, result) ==
    IF IsOk(result)
    THEN LET eval_result == Unwrap(result.val)
             status == status_of(eval_result)
         IN  [acc EXCEPT
                !.completed = @ + 1,
                !.total_model_latency = @ + eval_result.latency_ms,
                !.model_latency_count = @ + 1,
                !.total_judge_latency = IF IsSome(eval_result.judge_latency_ms)
                                        THEN @ + Unwrap(eval_result.judge_latency_ms) ELSE @,
                !.judge_latency_count = IF IsSome(eval_result.judge_latency_ms) THEN @ + 1 ELSE @,
                !.passed = IF status = "passed" THEN @ + 1 ELSE @,
                !.failed = IF status = "failed" THEN @ + 1 ELSE @,
                !.responses = Append(@, EvalResponse(id, status, result.val, None)),
                !.updates = Append(@, EvalUpdate(id, status, Some(eval_result.model),
                                                 verdict_of(eval_result), Some(eval_result.latency_ms)))]
    ELSE [acc EXCEPT
            !.failed = @ + 1,
            !.responses = Append(@, EvalResponse(id, "error", None,
                                                 Some(to_string(Unwrap(result.err))))),
            !.updates = Append(@, EvalUpdate(id, "error", None, None, None))]

RECURSIVE batch_loop(_, _, _)
batch_loop(res, k, acc) ==
    IF k > Len(res) THEN acc ELSE batch_loop(res, k + 1, batch_item(acc, k, res[k]))

\* variant: the means are taken over all the items of the batch
BatchEvalResponseMeanOverTotal(total, acc) ==
    [status |-> "completed",
     total |-> total,
     completed |-> acc.completed,
     passed |-> acc.passed,
     failed |-> acc.failed,
     average_model_latency_ms |-> IF total > 0 THEN acc.total_model_latency \div total ELSE 0,
     average_judge_latency_ms |-> IF total > 0 THEN acc.total_judge_latency \div total ELSE 0,
     results |-> acc.responses]

\* lines 285-298
BatchEvalResponse(total, acc) ==
    [status |-> "completed",
     total |-> total,
     completed |-> acc.completed,
     passed |-> acc.passed,
     failed |-> acc.failed,
     average_model_latency_ms |-> IF acc.model_latency_count > 0
                                  THEN acc.total_model_latency \div acc.model_latency_count ELSE 0,
     average_judge_latency_ms |-> IF acc.judge_latency_count > 0
                                  THEN acc.total_judge_latency \div acc.judge_latency_count ELSE 0,
     results |-> acc.responses]

\* run_batch, lines 183-298, from the point run_batch_evals has returned
RunBatchRespond ==
    /\ IsSome(results)
    /\ response = None
    /\ LET acc == batch_loop(Unwrap(results), 1, BatchAcc)
       IN  /\ updates' = updates \o acc.updates
           /\ connections' = broadcast_each(clients, connections, acc.updates)
           /\ \E saved \in SUBSET (IF db_pool THEN DOMAIN acc.responses ELSE {}) :
                 /\ evaluations' = evaluations \cup {acc.responses[k] : k \in saved}
                 /\ response' = Some(log_save_error(
                                     [http_status |-> 200, body |-> BatchEvalResponse(Len(evals), acc)],
                                     db_pool /\ saved # DOMAIN acc.responses))
    /\ UNCHANGED <<clients, input, output, config, db_pool, judge_prompts, evals, task, calls, completed, results>>

\* the variables of the evaluation, which the connection actors never touch
eval_vars == <<config, db_pool, judge_prompts, evals, task, calls, completed, results,
               response, updates, evaluations, input, output>>

\* ws_handler and Actor::started, lines 62-68 and 100-107: the actor of a new
\* connection starts and spawns the task that registers its address
Started(a) ==
    /\ connections[a].actor = "new"
    /\ connections' = [connections EXCEPT ![a].actor = "started", ![a].register = "spawned"]
    /\ UNCHANGED <<clients, eval_vars>>

\* the task spawned at line 65, WsBroker::register under the write lock
Register(a) ==
    /\ connections[a].register = "spawned"
    /\ clients' = Append(clients, a)
    /\ connections' = [connections EXCEPT ![a].register = "done"]
    /\ UNCHANGED eval_vars

\* Actor::stopped, lines 70-76: the actor is gone, its mailbox closed, and the task
\* that unregisters its address is spawned
Stopped(a) ==
    /\ connections[a].actor = "started"
    /\ connections' = [connections EXCEPT ![a].actor = "stopped", ![a].unregister = "spawned"]
    /\ UNCHANGED <<clients, eval_vars>>

\* clients.retain(|c| c != addr)
retain(cl, a) == SelectSeq(cl, LAMBDA c : c # a)

\* the task spawned at line 73, WsBroker::unregister under the write lock
Unregister(a) ==
    /\ connections[a].unregister = "spawned"
    /\ clients' = retain(clients, a)
    /\ connections' = [connections EXCEPT ![a].unregister = "done"]
    /\ UNCHANGED eval_vars

----------------------------------------------------------------------------
(* Specifications *)

\* POST /evals/run: one evaluation, with the judge prompt store beside it
Init ==
    /\ config \in Configs
    /\ db_pool \in BOOLEAN
    /\ judge_prompts = {}
    /\ evals \in {<<r>> : r \in SingleRequests}
    /\ task = [i \in 1..1 |-> NewTask]
    /\ calls = [i \in 1..1 |-> <<>>]
    /\ completed = <<>>
    /\ results = None
    /\ response = None
    /\ updates = <<>>
    /\ evaluations = {}
    /\ clients = <<>>
    /\ connections = NoConnections
    /\ input = None
    /\ output = None

Next ==
    \/ \E i \in DOMAIN evals : StartEval(i)
    \/ \E i \in DOMAIN evals, resp \in Responses : PrimaryResponse(i, resp)
    \/ \E i \in DOMAIN evals, resp \in Responses : JudgeResponse(i, resp)
    \/ \E i \in DOMAIN evals : ProviderHangs(i)
    \/ CreateJudgePrompt
    \/ SetActiveJudgePrompt
    \/ RunEvalRespond

Spec == Init /\ [][Next]_vars

\* POST /evals/batch: up to BatchSize evaluations, no database
InitBatch ==
    /\ config \in Configs
    /\ db_pool = FALSE
    /\ judge_prompts = {}
    /\ evals \in UNION {[1..n -> BatchRequests] : n \in 1..BatchSize}
    /\ task = [i \in DOMAIN evals |-> NewTask]
    /\ calls = [i \in DOMAIN evals |-> <<>>]
    /\ completed = <<>>
    /\ results = None
    /\ response = None
    /\ updates = <<>>
    /\ evaluations = {}
    /\ clients = <<>>
    /\ connections = NoConnections
    /\ input = None
    /\ output = None

NextBatch ==
    \/ \E i \in DOMAIN evals : StartEval(i)
    \/ \E i \in DOMAIN evals, resp \in BatchResponses : PrimaryResponse(i, resp)
    \/ \E i \in DOMAIN evals, resp \in BatchResponses : JudgeResponse(i, resp)
    \/ JoinAll
    \/ RunBatchRespond

BatchSpec == InitBatch /\ [][NextBatch]_vars

\* POST /evals/run while WebSocket connections open and close: the tasks a connection
\* spawns run in any order, as nothing but the lock of clients orders them
InitWs ==
    /\ config \in Configs
    /\ db_pool = FALSE
    /\ judge_prompts = {}
    /\ evals \in {<<r>> : r \in SingleRequests}
    /\ task = [i \in 1..1 |-> NewTask]
    /\ calls = [i \in 1..1 |-> <<>>]
    /\ completed = <<>>
    /\ results = None
    /\ response = None
    /\ updates = <<>>
    /\ evaluations = {}
    /\ clients = <<>>
    /\ connections = [a \in 1..MaxConnections |-> NewConnection]
    /\ input = None
    /\ output = None

NextWs ==
    \/ \E a \in DOMAIN connections : Started(a)
    \/ \E a \in DOMAIN connections : Register(a)
    \/ \E a \in DOMAIN connections : Stopped(a)
    \/ \E a \in DOMAIN connections : Unregister(a)
    \/ \E i \in DOMAIN evals : StartEval(i)
    \/ \E i \in DOMAIN evals, resp \in Responses : PrimaryResponse(i, resp)
    \/ \E i \in DOMAIN evals, resp \in Responses : JudgeResponse(i, resp)
    \/ RunEvalRespond

WsSpec == InitWs /\ [][NextWs]_vars

\* POST /evals/run or POST /evals/batch with or without a database pool; every
\* save_evaluation succeeds or fails
InitPersist ==
    /\ config = {"gemini"}
    /\ db_pool \in BOOLEAN
    /\ judge_prompts = {}
    /\ evals \in {<<r>> : r \in SingleRequests}
                \cup UNION {[1..n -> BatchRequests] : n \in 1..BatchSize}
    /\ task = [i \in DOMAIN evals |-> NewTask]
    /\ calls = [i \in DOMAIN evals |-> <<>>]
    /\ completed = <<>>
    /\ results = None
    /\ response = None
    /\ updates = <<>>
    /\ evaluations = {}
    /\ clients = <<>>
    /\ connections = NoConnections
    /\ input = None
    /\ output = None

NextPersist ==
    \/ \E i \in DOMAIN evals : StartEval(i)
    \/ \E i \in DOMAIN evals, resp \in BatchResponses : PrimaryResponse(i, resp)
    \/ \E i \in DOMAIN evals, resp \in JudgeResponses : JudgeResponse(i, resp)
    \/ (evals \in {<<r>> : r \in SingleRequests} /\ results = None /\ RunEvalRespond)
    \/ (response = None /\ JoinAll)
    \/ RunBatchRespond

PersistSpec == InitPersist /\ [][NextPersist]_vars

\* the judge prompt store: versions are created and activated, then one request
\* asks for a version, existing or not, to be the active one
InitStore ==
    /\ config = {"gemini"}
    /\ db_pool \in BOOLEAN
    /\ judge_prompts = {}
    /\ evals = <<>>
    /\ task = <<>>
    /\ calls = <<>>
    /\ completed = <<>>
    /\ results = None
    /\ response = None
    /\ updates = <<>>
    /\ evaluations = {}
    /\ clients = <<>>
    /\ connections = NoConnections
    /\ input \in 1..(MaxVersions + 1)
    /\ output = None

NextStore ==
    \/ CreateJudgePrompt
    \/ SetActiveJudgePrompt
    \/ PutActiveJudgePrompt

StoreSpec == InitStore /\ [][NextStore]_vars

\* one evaluation under the runtime's scheduling: a future that can make progress is
\* polled, a provider that has not hung does answer, the handler responds
FairSpec ==
    /\ Spec
    /\ WF_vars(\E i \in DOMAIN evals : StartEval(i))
    /\ WF_vars(\E i \in DOMAIN evals, resp \in Responses : PrimaryResponse(i, resp))
    /\ WF_vars(\E i \in DOMAIN evals, resp \in Responses : JudgeResponse(i, resp))
    /\ WF_vars(RunEvalRespond)

\* no request in progress: the state beside a function applied on its own
NoRequest ==
    /\ config = {"gemini"}
    /\ db_pool = FALSE
    /\ judge_prompts = {}
    /\ evals = <<>>
    /\ task = <<>>
    /\ calls = <<>>
    /\ completed = <<>>
    /\ results = None
    /\ response = None
    /\ updates = <<>>
    /\ evaluations = {}
    /\ clients = <<>>
    /\ connections = NoConnections

handler_vars == <<config, db_pool, judge_prompts, evals, task, calls, completed, results,
                  response, updates, evaluations, clients, connections>>

\* the responses a provider endpoint can send, as an adapter reads them
RawResponses ==
    {Response("error", 0, "invalid", "", None, 10)} \cup
    {Response("ok", status, body, text, usage, 40) :
        status \in {200, 204, 404, 500},
        body \in {"invalid", "error", "no_items", "no_text"},
        text \in {""},
        usage \in {None, Some(Usage(7, 1))}} \cup
    {Response("ok", status, "text", text, usage, 40) :
        status \in {200, 204, 404, 500},
        text \in {"", "4"},
        usage \in {None, Some(Usage(7, 1))}}

\* LlmProvider::generate of one adapter on one response
InitAdapter ==
    /\ NoRequest
    /\ input \in [adapter : KnownProviders, resp : RawResponses]
    /\ output = None

Generate ==
    /\ output = None
    /\ output' = Some(generate(input.adapter, input.resp))
    /\ UNCHANGED <<input, handler_vars>>

NextAdapter == Generate

AdapterSpec == InitAdapter /\ [][NextAdapter]_vars

\* model identifiers
ModelTexts ==
    {"anthropic:claude-x", "gemini:flash", "ollama:llama3:8b", "a:b:c", "::", ":x", "x:",
     "flash", "claude-x", ""}

\* texts with and without boolean cues
BooleanTexts ==
    {"Yes, that is correct", "yes", "YES", " Yes\n", "yesterday", "True", "true", " TRUE ",
     "true indeed", "True, it is", "False", "false", "false alarm", "No, they differ", "no",
     "Nothing", "I think the answer is yes", "The Answer Is No.", "the answer is not known",
     "No, but the answer is yes", "Yes, although the answer is no", "it is true", "Maybe",
     "say yes", "This is just random text without structure"}

\* answers of a judge model
JudgeTexts ==
    {"Verdict: PASS\nBoth indicate four.", "Verdict: FAIL\nThey differ.", "VERDICT: pass",
     "verdict: fail", "Yes, they match. Verdict: FAIL", "No. Verdict: PASS",
     "Verdict: FAIL\nYes, they differ in meaning.", "Verdict: PASS\nNo, they do not differ.",
     "Yes, they are equivalent in meaning.", "No, they are not equivalent.",
     "I would say yes, they agree.", "Clearly no, they disagree.", "Not sure", "Maybe",
     "Verdict: PASS, equal", "Verdict: PASS, equal.", "Verdict: FAIL, égal!",
     "No, they are inégal"}

\* answers of a model under evaluation ("~" for the backtick, see FENCE)
OutputTexts ==
    {"4", " 4 ", "-3.5", "4.0", "1e2", "01", "true", "null", "\"hi\"", "[1, 2]", "[1, 2,]",
     "{\"answer\": 42}", "{\"name\": \"Alice\", \"age\": 30}", "{\"a\": 1",
     "\nHere is the result:\n~~~json\n{\"answer\": 42}\n~~~\n",
     "~~~\n[true]\n~~~ and so 5", "~~~\nnot json\n~~~\nanswer: 3", "~~~json {\"a\": 1}\n~~~",
     "The answer is 42", "Result: 3.14", "result: 3.14", "answer: -7", "It is -7", "It costs 10.",
     "Total 10 items", "42\n", "Yes, the answer is 42", "No, the result is 7", "Yes, the answer is B",
     "The answer is B", "choice: c", "answer is: yes", "answer: b\nreason: it fits",
     "Answer: B\nReason: it fits", "\nName: John Doe\nAge: 25\nCity: New York\n",
     "Passed: yes\nScore: 0.50", "Score: inf", "Name:", "Name: ", "Hello world\nName: Bob"}

\* a template as the sequence of its parts: literal text, or a placeholder with its key
Lit(text) == [key |-> None, text |-> text]
Hole(key, text) == [key |-> Some(key), text |-> text]

TemplateParts ==
    {<<Lit("What is 2+2?")>>,
     <<Lit("What is "), Hole("a", "{{a}}"), Lit("+"), Hole("b", "{{ b }}"), Lit("?")>>,
     <<Hole("a", "{{a}}"), Hole("a", "{{a}}")>>,
     <<Hole("a", "{{a}}"), Lit(" "), Hole("n", "{{n}}"), Lit(" "), Hole("missing", "{{missing}}")>>,
     <<Lit("{"), Hole("a", "{{a}}"), Lit("}")>>,
     <<Lit("}}"), Hole("b", "{{b}}"), Lit("{{")>>,
     <<Hole("o", "{{o}}"), Lit(", "), Hole("nothing", "{{nothing}}"), Lit(", "), Hole("flag", "{{flag}}")>>,
     <<Hole("nested", "{{nested}}"), Lit("!")>>,
     <<Hole("a_1", "{{\ta_1\n}}")>>,
     <<Hole("sum", "{{sum}}")>>,
     <<Lit("4")>>,
     <<Lit("{{a b}} {{}} {{a-b}} {{ a } } {a} {{a")>>}

RECURSIVE TemplateText(_)
TemplateText(parts) ==
    IF parts = <<>> THEN "" ELSE Head(parts).text \o TemplateText(Tail(parts))

TemplateTexts == {TemplateText(parts) : parts \in TemplateParts}

\* metadata of a request: any JSON value
Metadata ==
    {JObject([k \in {"a", "b", "n", "o", "nothing", "flag", "nested", "a_1"} |->
                CASE k = "a" -> JString("2")
                  [] k = "b" -> JString("")
                  [] k = "n" -> JNumber(Number("int", FALSE, "5", ""))
                  [] k = "o" -> JObject(insert(EmptyMap, "a", JString("2")))
                  [] k = "nothing" -> JNull
                  [] k = "flag" -> JBool(TRUE)
                  [] k = "nested" -> JString("{{a}}")
                  [] k = "a_1" -> JString("x y")]),
     JObject(EmptyMap),
     JArray(<<JString("a")>>),
     JString("a"),
     JNull}

Texts == ModelTexts \cup BooleanTexts \cup JudgeTexts \cup OutputTexts \cup TemplateTexts

\* the text functions of runner.rs, each applied to one text
InitParse ==
    /\ NoRequest
    /\ input \in Texts
    /\ output = None

Applied(fn, val) == Some([fn |-> fn, val |-> val])

ParseModelString ==
    /\ output = None
    /\ output' = Applied("parse_model_string", parse_model_string(input))
    /\ UNCHANGED <<input, handler_vars>>

ExtractBoolean ==
    /\ output = None
    /\ output' = Applied("extract_boolean", extract_boolean(input))
    /\ UNCHANGED <<input, handler_vars>>

ParseJudgeResponse ==
    /\ output = None
    /\ output' = Applied("parse_judge_response", parse_judge_response(input))
    /\ UNCHANGED <<input, handler_vars>>

ParseModelOutput ==
    /\ output = None
    /\ output' = Applied("parse_model_output", parse_model_output(input))
    /\ UNCHANGED <<input, handler_vars>>

\* EvalConfig::render of a request whose prompt is the text
Render ==
    /\ output = None
    /\ \E metadata \in {None} \cup {Some(data) : data \in Metadata},
          expected \in {None, Some("{{a}} or {{sum}}")} :
          LET eval == EvalConfig("gemini:{{a}}", input, expected, Some("openai:{{a}}"),
                                 Some("Same as {{a}}."), <<"{{a}}">>, metadata)
          IN  output' = Applied("render", [eval |-> eval, result |-> render(eval)])
    /\ UNCHANGED <<input, handler_vars>>

NextParse ==
    \/ Render
    \/ ParseModelString
    \/ ParseModelOutput
    \/ ParseJudgeResponse
    \/ ExtractBoolean

ParseSpec == InitParse /\ [][NextParse]_vars

----------------------------------------------------------------------------
(* Properties *)

IsDone(i) == task[i].pc = "done"

Outcome(i) == Unwrap(task[i].result)

CallsOf(i, kind) == {k \in DOMAIN calls[i] : calls[i][k].kind = kind}

Configured(name) == name \in KnownProviders /\ name \in config

PrimaryProvider(i) == parse_model_string(evals[i].model).provider

JudgeRequested(i) == IsSome(evals[i].expected) /\ IsSome(evals[i].judge_model)

JudgeProvider(i) == parse_model_string(Unwrap(evals[i].judge_model)).provider

\* the primary call of evaluation i was answered and its adapter accepted the answer
PrimarySucceeded(i) ==
    /\ Configured(PrimaryProvider(i))
    /\ IsSome(task[i].primary_resp)
    /\ IsOk(generate(PrimaryProvider(i), Unwrap(task[i].primary_resp)))

PrimaryOutput(i) == Unwrap(generate(PrimaryProvider(i), Unwrap(task[i].primary_resp)).val).text

\* the error the primary dispatch of evaluation i ended with, None when it has not
PrimaryCallError(i) ==
    IF ~Configured(PrimaryProvider(i)) THEN Some(ProviderNotFound(PrimaryProvider(i)))
    ELSE IF IsSome(task[i].primary_resp)
         THEN generate(PrimaryProvider(i), Unwrap(task[i].primary_resp)).err
         ELSE None

\* evaluation i is over, its primary call succeeded, and its judge call failed:
\* no configuration for the judge's provider, or an answer the adapter rejects
JudgeCallFailed(i) ==
    /\ IsDone(i)
    /\ PrimarySucceeded(i)
    /\ JudgeRequested(i)
    /\ \/ ~Configured(JudgeProvider(i))
       \/ /\ IsSome(task[i].judge_resp)
          /\ IsErr(generate(JudgeProvider(i), Unwrap(task[i].judge_resp)))

\* the result is one of request eval: its model, prompt and expected text, or an
\* error naming its provider or its model
BelongsTo(res, eval) ==
    LET rendered == Unwrap(render(eval).val)
    IN  IF IsOk(res)
        THEN /\ Unwrap(res.val).model = rendered.model
             /\ Unwrap(res.val).prompt = rendered.prompt
             /\ Unwrap(res.val).expected = rendered.expected
        ELSE Unwrap(res.err) \in {ProviderNotFound(parse_model_string(rendered.model).provider),
                                  ModelFailure(rendered.model)}

\* C1: a batch returns exactly one result per input request, the result at position
\* i is the one of request i whatever the order the evaluations finished in, and the
\* batch HTTP response lists the per-item results in that same order.
C1_BatchKeepsInputOrder ==
    /\ IsSome(results) =>
          /\ Len(Unwrap(results)) = Len(evals)
          /\ \A i \in DOMAIN evals :
                /\ IsDone(i)
                /\ Unwrap(results)[i] = Outcome(i)
                /\ BelongsTo(Unwrap(results)[i], evals[i])
    /\ IsSome(response) =>
          /\ Len(Unwrap(response).body.results) = Len(evals)
          /\ \A i \in DOMAIN evals :
                /\ Unwrap(response).body.results[i].result = Unwrap(results)[i].val
                /\ IsSome(Unwrap(response).body.results[i].error) <=> IsErr(Unwrap(results)[i])

\* the batch has answered, the second request finished before the first, and the
\* two have different results
C1_FinishedOutOfOrder ==
    /\ IsSome(response)
    /\ Len(evals) = 2
    /\ completed = <<2, 1>>
    /\ evals[1] # evals[2]
    /\ Outcome(1) # Outcome(2)

\* what run_eval returns for request i run on its own, given the same configuration
\* and the same answers from the providers
RunAlone(i) ==
    run_eval(config, evals[i], task[i].primary_resp, task[i].tmpl_load, task[i].judge_resp)

\* C2: the evaluations of a batch are independent: each one's outcome is what
\* run_eval gives for that request alone, and a failing request neither cancels
\* the others nor changes their results; the batch is ready only when all are done.
C2_BatchItemsIndependent ==
    /\ \A i \in DOMAIN evals : IsDone(i) => Outcome(i) = RunAlone(i)
    /\ IsSome(results) =>
          /\ \A i \in DOMAIN evals : IsDone(i)
          /\ Len(Unwrap(results)) = Len(evals)
          /\ \A i \in DOMAIN evals : Unwrap(results)[i] = Outcome(i)

\* a batch whose first finished evaluation failed and that still carries the
\* successful outcome of another one, whose provider answered afterwards
C2_FailureBesideSuccess ==
    /\ IsSome(results)
    /\ \E i, j \in DOMAIN evals :
          /\ completed[1] = i
          /\ IsErr(Unwrap(results)[i])
          /\ IsOk(Unwrap(results)[j])
          /\ IsSome(task[j].primary_resp)

\* C3: when the primary call succeeded and the judge call fails for any reason
\* (judge provider not configured, network error, non-2xx status, malformed or
\* empty response), the evaluation returns a successful outcome whose judge_result
\* is absent; JudgeFailure is never the evaluation's error.
C3_JudgeFailureIsSwallowed ==
    \A i \in DOMAIN evals :
        /\ (IsDone(i) /\ IsErr(Outcome(i))) => Unwrap(Outcome(i).err).kind # "JudgeFailure"
        /\ JudgeCallFailed(i) =>
              /\ IsOk(Outcome(i))
              /\ Unwrap(Outcome(i).val).judge_result = None

\* the judge was called, its answer was rejected, and the handler has responded
C3_JudgeAnswerRejected ==
    \E i \in DOMAIN evals :
        /\ JudgeCallFailed(i)
        /\ IsSome(task[i].judge_resp)
        /\ IsSome(response)

\* C4: a judge call is issued only when the request has both expected and
\* judge_model; when either is absent no judge call is made and the outcome's
\* judge_result is absent.
C4_JudgingIsOptIn ==
    \A i \in DOMAIN evals :
        /\ CallsOf(i, "judge") # {} => JudgeRequested(i)
        /\ (IsDone(i) /\ IsOk(Outcome(i)) /\ ~JudgeRequested(i)) =>
              /\ CallsOf(i, "judge") = {}
              /\ Unwrap(Outcome(i).val).judge_result = None

\* a request naming a judge model but no expected text has finished successfully
C4_JudgeModelWithoutExpected ==
    \E i \in DOMAIN evals :
        /\ IsDone(i)
        /\ IsOk(Outcome(i))
        /\ IsSome(evals[i].judge_model)
        /\ ~IsSome(evals[i].expected)

\* C5: the judge call is issued only after the primary call has completed
\* successfully, and the judge prompt embeds the primary call's output; when the
\* primary call fails, no judge call is ever issued.
C5_JudgeAfterPrimary ==
    \A i \in DOMAIN evals :
        /\ \A k \in CallsOf(i, "judge") :
              /\ k > 1
              /\ calls[i][1].kind = "primary"
              /\ PrimarySucceeded(i)
              /\ contains(calls[i][k].prompt, PrimaryOutput(i))
        /\ (IsSome(task[i].primary_resp) /\ ~PrimarySucceeded(i)) => CallsOf(i, "judge") = {}
        /\ (IsDone(i) /\ IsErr(Outcome(i))) => CallsOf(i, "judge") = {}

\* a judge call is in flight for an output that differs from the expected text
C5_JudgeCallInFlight ==
    \E i \in DOMAIN evals :
        /\ task[i].pc = "judge_wait"
        /\ PrimaryOutput(i) # Unwrap(evals[i].expected)

\* C6: when the primary call fails, run_eval produces no outcome and returns a
\* typed error: ProviderNotFound is passed through unchanged, every other failure
\* of the adapter is returned as ModelFailure carrying the request's model.
C6_PrimaryFailureMapping ==
    \A i \in DOMAIN evals :
        (IsDone(i) /\ IsSome(PrimaryCallError(i))) =>
            /\ IsErr(Outcome(i))
            /\ Outcome(i).val = None
            /\ Unwrap(Outcome(i).err) =
                  IF Unwrap(PrimaryCallError(i)).kind = "ProviderNotFound"
                  THEN Unwrap(PrimaryCallError(i))
                  ELSE ModelFailure(evals[i].model)

\* the provider answered the primary call with a non-2xx status
C6_PrimaryApiError ==
    \E i \in DOMAIN evals :
        /\ IsDone(i)
        /\ IsSome(PrimaryCallError(i))
        /\ Unwrap(PrimaryCallError(i)).kind = "ApiError"

\* C7: dispatching to a provider that has no configuration, or whose name is not
\* one of the known ones, fails with ProviderNotFound carrying that name, and no
\* network request is made for that call.
C7_UnconfiguredProvider ==
    \A i \in DOMAIN evals :
        /\ \A k \in CallsOf(i, "primary") :
              calls[i][k].provider = PrimaryProvider(i) /\ Configured(PrimaryProvider(i))
        /\ \A k \in CallsOf(i, "judge") :
              calls[i][k].provider = JudgeProvider(i) /\ Configured(JudgeProvider(i))
        /\ (task[i].pc # "init" /\ ~Configured(PrimaryProvider(i))) =>
              /\ IsDone(i)
              /\ Outcome(i) = Err(ProviderNotFound(PrimaryProvider(i)))
              /\ calls[i] = <<>>
        /\ (IsDone(i) /\ PrimarySucceeded(i) /\ JudgeRequested(i)
               /\ ~Configured(JudgeProvider(i))) =>
              /\ CallsOf(i, "judge") = {}
              /\ Unwrap(Outcome(i).val).judge_result = None

\* a request for a provider outside the known set was answered by the handler
C7_UnknownProviderAnswered ==
    \E i \in DOMAIN evals :
        /\ IsSome(response)
        /\ PrimaryProvider(i) \notin KnownProviders
        /\ Unwrap(response).body.error = Some("Provider '" \o PrimaryProvider(i) \o "' not found")

\* C8: nothing is retried: a dispatch makes at most one network request whatever
\* the failure, and one evaluation issues at most one primary call and at most one
\* judge call.
C8_NoRetry ==
    \A i \in DOMAIN evals :
        /\ Cardinality(CallsOf(i, "primary")) <= 1
        /\ Cardinality(CallsOf(i, "judge")) <= 1
        /\ (IsSome(task[i].primary_resp) /\ ~PrimarySucceeded(i)) =>
              IsDone(i) /\ Len(calls[i]) = 1
        /\ IsSome(task[i].judge_resp) => IsDone(i) /\ Len(calls[i]) = 2

\* both calls were made and the judge's answer was a failure
C8_BothCallsJudgeFailed ==
    \E i \in DOMAIN evals :
        /\ IsDone(i)
        /\ Len(calls[i]) = 2
        /\ IsSome(task[i].judge_resp)
        /\ IsErr(generate(JudgeProvider(i), Unwrap(task[i].judge_resp)))

\* C9: every outbound network call is guarded by a timeout, so every evaluation
\* eventually returns: the handler eventually responds.
C9_EveryEvaluationReturns == <>IsSome(response)

\* a call is waiting on a provider that will never answer, with no response sent
C9_WaitingForever ==
    \E i \in DOMAIN evals : task[i].hung /\ ~IsSome(response)

\* the stored judge prompt row evaluation i loaded, None when it uses the built-in
StoredTemplate(i) ==
    IF IsSome(Unwrap(task[i].tmpl_load)) /\ IsOk(Unwrap(Unwrap(task[i].tmpl_load)))
    THEN Unwrap(Unwrap(task[i].tmpl_load)).val
    ELSE None

C10_PromptFromLoad ==
    \A i \in DOMAIN evals :
        /\ IsSome(task[i].tmpl_load) =>
              /\ ~db_pool => Unwrap(task[i].tmpl_load) = None
              /\ PrimarySucceeded(i)
              /\ \A k \in CallsOf(i, "judge") :
                    calls[i][k].prompt =
                       IF IsSome(StoredTemplate(i))
                       THEN render_template(Unwrap(StoredTemplate(i)).template,
                                            judge_template_vars(Unwrap(evals[i].expected),
                                                                PrimaryOutput(i), evals[i].criteria))
                       ELSE create_judge_prompt(Unwrap(evals[i].expected), PrimaryOutput(i),
                                                evals[i].criteria)
              /\ IsDone(i) =>
                    /\ IsOk(Outcome(i))
                    /\ Unwrap(Outcome(i).val).judge_prompt_version =
                          IF IsSome(StoredTemplate(i))
                          THEN Some(Unwrap(StoredTemplate(i)).version)
                          ELSE None
        /\ (IsDone(i) /\ IsOk(Outcome(i)) /\ ~IsSome(task[i].tmpl_load)) =>
              Unwrap(Outcome(i).val).judge_prompt_version = None

C10_LoadsActiveRow ==
    \A i \in DOMAIN evals :
        (~IsSome(task[i].tmpl_load) /\ IsSome(task'[i].tmpl_load)) =>
            LET load == Unwrap(task'[i].tmpl_load)
            IN  (IsSome(load) /\ IsOk(Unwrap(load))) =>
                    /\ Unwrap(Unwrap(load).val) \in judge_prompts
                    /\ Unwrap(Unwrap(load).val).is_active

C11_OneActiveVersion ==
    /\ Cardinality({r \in judge_prompts : r.is_active}) <= 1
    /\ \A r, q \in judge_prompts : r.version = q.version => r = q

C11_VersionsImmutable ==
    \A r \in judge_prompts :
        \E q \in judge_prompts' : q.version = r.version /\ q.template = r.template

\* C11: after any sequence of create_judge_prompt (set_active true or false) and
\* set_active_judge_prompt transactions, at most one judge prompt version is marked
\* active, and the number and the template of an existing version never change.
C11_JudgePromptVersions == []C11_OneActiveVersion /\ [][C11_VersionsImmutable]_vars

\* two versions with different templates exist and the older one is the active one
C11_OlderVersionActive ==
    \E r, q \in judge_prompts :
        /\ r.version = 1 /\ r.is_active
        /\ q.version = 2 /\ ~q.is_active
        /\ r.template # q.template

\* the provider answered the primary call of evaluation i with a success status and
\* a body whose text field is the empty string
PrimaryTextEmpty(i) ==
    /\ Configured(PrimaryProvider(i))
    /\ IsSome(task[i].primary_resp)
    /\ Unwrap(task[i].primary_resp).transport = "ok"
    /\ is_success(Unwrap(task[i].primary_resp).status)
    /\ Unwrap(task[i].primary_resp).body = "text"
    /\ Unwrap(task[i].primary_resp).text = ""

\* C12 as amended: when the primary provider returns a successful response whose
\* text is the empty string, the adapter reports EmptyResponse, the evaluation ends
\* with ModelFailure carrying the request's model, and no outcome is produced.
C12_EmptyTextIsModelFailure ==
    \A i \in DOMAIN evals :
        PrimaryTextEmpty(i) =>
            /\ generate(PrimaryProvider(i), Unwrap(task[i].primary_resp)) = Err(EmptyResponse)
            /\ IsDone(i)
            /\ Outcome(i) = Err(ModelFailure(evals[i].model))
            /\ Outcome(i).val = None
            /\ CallsOf(i, "judge") = {}

\* C12 as written: the evaluation ends in an EmptyResponse failure
C12_EndsInEmptyResponse ==
    \A i \in DOMAIN evals :
        PrimaryTextEmpty(i) =>
            /\ IsDone(i)
            /\ IsErr(Outcome(i))
            /\ Unwrap(Outcome(i).err).kind = "EmptyResponse"

\* the handler has answered an evaluation whose primary text was empty
C12_EmptyTextAnswered ==
    \E i \in DOMAIN evals : PrimaryTextEmpty(i) /\ IsSome(response)

\* the adapter has answered a response with a success status whose text field is
\* missing or null (and, for Anthropic, whose required usage block is there)
TextFieldMissing ==
    /\ IsSome(output)
    /\ input.resp.transport = "ok"
    /\ is_success(input.resp.status)
    /\ input.resp.body = "no_text"
    /\ input.adapter = "anthropic" => IsSome(input.resp.usage)

\* C13: every adapter reports a response with a success status whose text field is
\* missing or null as UnexpectedResponse, not as EmptyResponse and not as a
\* transport/request error.
C13_MissingTextIsUnexpectedResponse ==
    TextFieldMissing =>
        /\ IsErr(Unwrap(output))
        /\ Unwrap(Unwrap(output).err).kind = "UnexpectedResponse"

\* the OpenAI or Ollama adapter reported a missing text field as a request error
C13_MissingTextAsRequestError ==
    /\ TextFieldMissing
    /\ input.adapter \in {"openai", "ollama"}
    /\ Unwrap(output) = Err(RequestError)

\* C14: in every outcome token_usage and judge_token_usage are present only when
\* the provider's response carried usage accounting; when the adapter returned an
\* all-absent usage value the field is absent.
C14_UsageAbsentWhenUnknown ==
    \A i \in DOMAIN evals :
        (IsDone(i) /\ IsOk(Outcome(i))) =>
            /\ IsSome(Unwrap(Outcome(i).val).token_usage) =>
                  Unwrap(Unwrap(Outcome(i).val).token_usage) # TokenUsageDefault
            /\ IsSome(Unwrap(Outcome(i).val).judge_token_usage) =>
                  Unwrap(Unwrap(Outcome(i).val).judge_token_usage) # TokenUsageDefault

\* an OpenAI judge answered without a usage block and the outcome carries a
\* judge_token_usage with both counts absent
C14_EmptyJudgeUsagePresent ==
    \E i \in DOMAIN evals :
        /\ IsDone(i)
        /\ IsOk(Outcome(i))
        /\ JudgeRequested(i)
        /\ JudgeProvider(i) = "openai"
        /\ IsSome(task[i].judge_resp)
        /\ Unwrap(task[i].judge_resp).usage = None
        /\ Unwrap(Outcome(i).val).judge_token_usage = Some(TokenUsageDefault)

ReturnOf(fn) == Unwrap(output).val

Returned(fn) == IsSome(output) /\ Unwrap(output).fn = fn

\* C15: a model identifier is split at its first ':' only: the text before it is
\* the provider, everything after it, further ':' included, is the model name;
\* "anthropic:claude-x" gives ("anthropic", "claude-x").
C15_SplitAtFirstColon ==
    (Returned("parse_model_string") /\ contains(input, ":")) =>
        /\ ReturnOf("parse_model_string").provider \o ":" \o ReturnOf("parse_model_string").model
              = input
        /\ ~contains(ReturnOf("parse_model_string").provider, ":")
        /\ input = "anthropic:claude-x" =>
              ReturnOf("parse_model_string") = [provider |-> "anthropic", model |-> "claude-x"]

\* an identifier with two ':' was split and the model name keeps the second one
C15_ModelNameKeepsColon ==
    /\ Returned("parse_model_string")
    /\ input = "ollama:llama3:8b"
    /\ ReturnOf("parse_model_string").model = "llama3:8b"

\* the first provider AppConfig::from_env finds configured (gemini, ollama, openai)
FirstConfigured ==
    IF "gemini" \in config THEN "gemini" ELSE IF "ollama" \in config THEN "ollama" ELSE "openai"

\* evaluation i has been dispatched and its model identifier has no ':'
DispatchedWithoutPrefix(i) == task[i].pc # "init" /\ ~contains(evals[i].model, ":")

\* C16 as amended: when a model identifier contains no ':', the whole string is the
\* model name and the provider is "gemini", whichever providers are configured.
C16_DefaultProviderIsGemini ==
    \A i \in DOMAIN evals :
        DispatchedWithoutPrefix(i) =>
            IF "gemini" \in config
            THEN /\ Len(calls[i]) >= 1
                 /\ calls[i][1].provider = "gemini"
                 /\ calls[i][1].model = evals[i].model
            ELSE /\ calls[i] = <<>>
                 /\ IsDone(i)
                 /\ Outcome(i) = Err(ProviderNotFound("gemini"))

\* C16 as written: the provider is the first configured one
C16_DefaultProviderIsFirstConfigured ==
    \A i \in DOMAIN evals :
        DispatchedWithoutPrefix(i) =>
            /\ Len(calls[i]) >= 1
            /\ calls[i][1].provider = FirstConfigured
            /\ calls[i][1].model = evals[i].model

\* with only OpenAI configured, a request for "flash" was refused for want of gemini
C16_GeminiMissing ==
    \E i \in DOMAIN evals :
        /\ DispatchedWithoutPrefix(i)
        /\ config = {"openai"}
        /\ IsSome(response)
        /\ Unwrap(response).body.error = Some("Provider 'gemini' not found")

\* the text as extract_boolean reads it: lower case, no white space at the ends
Lowered == trim(to_lowercase(input))

SaysYes == starts_with(Lowered, "yes") \/ contains(Lowered, "answer is yes")

SaysNo == starts_with(Lowered, "no") \/ contains(Lowered, "answer is no")

\* C19 as amended: boolean extraction reads the text in lower case and trimmed; it
\* returns true when the text starts with "yes", contains "answer is yes" or is
\* exactly "true"; failing that, false when the text starts with "no", contains
\* "answer is no" or is exactly "false"; and absent otherwise.
C19_BooleanCues ==
    Returned("extract_boolean") =>
        /\ (SaysYes \/ Lowered = "true") => ReturnOf("extract_boolean") = Some(TRUE)
        /\ (~SaysYes /\ Lowered # "true" /\ (SaysNo \/ Lowered = "false")) =>
              ReturnOf("extract_boolean") = Some(FALSE)
        /\ (~SaysYes /\ ~SaysNo /\ Lowered \notin {"true", "false"}) =>
              ReturnOf("extract_boolean") = None

\* C19 as written: true for every text that starts with "yes" or "true" or contains
\* "answer is yes", false for every (other) text that starts with "no" or "false" or
\* contains "answer is no", absent otherwise.
C19_BooleanPrefixCues ==
    Returned("extract_boolean") =>
        LET yes == SaysYes \/ starts_with(Lowered, "true")
            no == SaysNo \/ starts_with(Lowered, "false")
        IN  /\ yes => ReturnOf("extract_boolean") = Some(TRUE)
            /\ (~yes /\ no) => ReturnOf("extract_boolean") = Some(FALSE)
            /\ (~yes /\ ~no) => ReturnOf("extract_boolean") = None

\* a text that starts with "true" and goes on was found to carry no boolean
C19_TruePrefixIsAbsent ==
    /\ Returned("extract_boolean")
    /\ input = "True, it is"
    /\ ReturnOf("extract_boolean") = None

\* the judge's answer in lower case, as the classification reads it
JudgeLowered == to_lowercase(input)

ExplicitPass == contains(JudgeLowered, "verdict: pass")

ExplicitFail == contains(JudgeLowered, "verdict: fail")

AffirmativeCue == starts_with(JudgeLowered, "yes") \/ contains(JudgeLowered, "yes, they")

NegativeCue == starts_with(JudgeLowered, "no") \/ contains(JudgeLowered, "no, they")

\* C20: the verdict is read without regard to case; an explicit "verdict: pass" or
\* "verdict: fail" decides it whatever other cue the text has; without an explicit
\* verdict an affirmative cue gives Pass, a negative cue Fail, and no cue Uncertain.
C20_ExplicitVerdictFirst ==
    Returned("parse_judge_response") =>
        LET verdict == ReturnOf("parse_judge_response").verdict
        IN  /\ (ExplicitPass /\ ~ExplicitFail) => verdict = "Pass"
            /\ (ExplicitFail /\ ~ExplicitPass) => verdict = "Fail"
            /\ (~ExplicitPass /\ ~ExplicitFail /\ AffirmativeCue) => verdict = "Pass"
            /\ (~ExplicitPass /\ ~ExplicitFail /\ ~AffirmativeCue /\ NegativeCue) => verdict = "Fail"
            /\ (~ExplicitPass /\ ~ExplicitFail /\ ~AffirmativeCue /\ ~NegativeCue) =>
                  verdict = "Uncertain"

\* an answer with "verdict: fail" that begins with "yes" was classified Pass
C20_ExplicitFailReadAsPass ==
    /\ Returned("parse_judge_response")
    /\ ExplicitFail /\ ~ExplicitPass /\ starts_with(JudgeLowered, "yes")
    /\ ReturnOf("parse_judge_response").verdict = "Pass"

IsText(resp, text) ==
    /\ IsSome(resp)
    /\ Unwrap(resp).transport = "ok"
    /\ is_success(Unwrap(resp).status)
    /\ Unwrap(resp).body = "text"
    /\ Unwrap(resp).text = text

JUDGE_TEXT == "Verdict: PASS\nBoth indicate four."

\* evaluation i got the primary text "4" and the judge text JUDGE_TEXT
AnsweredFour(i) ==
    /\ IsDone(i)
    /\ Configured(PrimaryProvider(i))
    /\ IsText(task[i].primary_resp, "4")
    /\ JudgeRequested(i)
    /\ Configured(JudgeProvider(i))
    /\ IsText(task[i].judge_resp, JUDGE_TEXT)

JudgedFour(i, parsed) ==
    /\ IsOk(Outcome(i))
    /\ Unwrap(Outcome(i).val).model_output = "4"
    /\ Unwrap(Outcome(i).val).parsed_output = Some(parsed)
    /\ IsSome(Unwrap(Outcome(i).val).judge_result)
    /\ Unwrap(Unwrap(Outcome(i).val).judge_result).verdict = "Pass"
    /\ Unwrap(Unwrap(Outcome(i).val).judge_result).reasoning = Some(JUDGE_TEXT)

Four == JNumber(Number("int", FALSE, "4", ""))

\* C17 as amended: an evaluation whose primary response is the text "4" and whose
\* judge response is "Verdict: PASS\nBoth indicate four." yields an outcome with
\* model_output "4", parsed_output equal to the JSON number 4, verdict Pass and
\* reasoning equal to the full judge text.
C17_FourParsedAsNumber ==
    \A i \in DOMAIN evals : AnsweredFour(i) => JudgedFour(i, Four)

\* C17 as written: the same outcome with parsed_output the object {"answer": 4}
C17_FourParsedAsAnswerObject ==
    \A i \in DOMAIN evals : AnsweredFour(i) => JudgedFour(i, answer(Four))

\* an evaluation answered "4" and judged with that text has returned
C17_FourJudged ==
    \E i \in DOMAIN evals : AnsweredFour(i) /\ IsOk(Outcome(i)) /\ IsSome(response)

\* what each strategy of parse_model_output makes of the text, in the order of C18
Strategies ==
    <<from_str(input),
      block_json(extract_json_code_block(input)),
      number_answer(extract_number(input)),
      boolean_answer(extract_boolean(input)),
      choice_answer(extract_multiple_choice(input)),
      extract_key_value_pairs(input)>>

\* result is what the first of the strategies that succeeded gave
FirstSuccess(strategies, result) ==
    /\ \A k \in 1..6 :
          (IsSome(strategies[k]) /\ \A j \in 1..(k - 1) : strategies[j] = None) =>
              result = strategies[k]
    /\ IsSome(strategies[1]) => result = strategies[1]
    /\ result = None <=> \A k \in 1..6 : strategies[k] = None

\* C18: parse_model_output returns what the first strategy that succeeds returns,
\* the strategies taken in the order whole-string JSON, fenced code block, number,
\* boolean, multiple choice, key-value; a text that is valid JSON is returned as
\* that JSON value; the result is absent exactly when every strategy fails.
C18_FirstStrategyWins ==
    Returned("parse_model_output") => FirstSuccess(Strategies, ReturnOf("parse_model_output"))

\* result is what the number strategy gave, though the boolean strategy succeeded too
NumberEclipsesBoolean(strategies, result) ==
    /\ strategies[1] = None /\ strategies[2] = None
    /\ IsSome(strategies[3]) /\ IsSome(strategies[4])
    /\ result = strategies[3]

\* a text with a number and a boolean cue was parsed, and the number was returned
C18_NumberBeforeBoolean ==
    /\ Returned("parse_model_output")
    /\ NumberEclipsesBoolean(Strategies, ReturnOf("parse_model_output"))

\* the verdict that the cues of the judge's answer give, its length left aside
VerdictOfCues ==
    IF ExplicitPass \/ AffirmativeCue THEN "Pass"
    ELSE IF ExplicitFail \/ NegativeCue THEN "Fail"
    ELSE "Uncertain"

\* C21 as stated: the reasoning of a JudgeResult is the judge's full raw text when
\* that text is longer than 20 characters and absent otherwise (a reply of exactly
\* 20 characters has none); the verdict does not depend on the length.
C21_ReasoningOverTwentyCharacters ==
    Returned("parse_judge_response") =>
        /\ ReturnOf("parse_judge_response").reasoning
                = IF Len(input) > 20 THEN Some(input) ELSE None
        /\ ReturnOf("parse_judge_response").verdict = VerdictOfCues

\* C21: the reasoning of a JudgeResult is the judge's full raw text when the UTF-8
\* encoding of that text is longer than 20 bytes and absent otherwise (a reply of
\* exactly 20 bytes has none); the verdict is read from the cues of the text alone,
\* whatever its length.
C21_ReasoningOverTwentyBytes ==
    Returned("parse_judge_response") =>
        /\ ReturnOf("parse_judge_response").reasoning
                = IF len(input) > 20 THEN Some(input) ELSE None
        /\ ReturnOf("parse_judge_response").verdict = VerdictOfCues

\* a reply of 20 characters and 21 bytes is kept as reasoning, beside its verdict
C21_TwentyCharactersWithReasoning ==
    /\ Returned("parse_judge_response")
    /\ Len(input) = 20
    /\ len(input) = 21
    /\ ReturnOf("parse_judge_response").reasoning = Some(input)
    /\ ReturnOf("parse_judge_response").verdict = "Fail"

\* the string that metadata holds for key: Some for a JSON object that binds key to a
\* string, None for a missing key, another kind of value, or metadata that is no object
StringValue(metadata, key) ==
    IF /\ IsSome(metadata)
       /\ Unwrap(metadata).t = "object"
       /\ key \in DOMAIN Unwrap(metadata).object
       /\ Unwrap(metadata).object[key].t = "string"
    THEN Some(Unwrap(metadata).object[key].string)
    ELSE None

\* the parts of a template, each placeholder with a string value replaced by it
RECURSIVE Substituted(_, _)
Substituted(parts, metadata) ==
    IF parts = <<>> THEN ""
    ELSE (IF IsSome(Head(parts).key) /\ IsSome(StringValue(metadata, Unwrap(Head(parts).key)))
          THEN Unwrap(StringValue(metadata, Unwrap(Head(parts).key)))
          ELSE Head(parts).text)
         \o Substituted(Tail(parts), metadata)

HasPlaceholder(s) == \E i \in 1..Len(s) : match_placeholder(s, i).end > 0

\* C22: render replaces each {{key}} placeholder by the metadata value of key when
\* that key is present with a string value and leaves the placeholder text as it is
\* when the key is missing or its value is not a string; it never fails, and a
\* template without placeholders is returned unchanged for any metadata.
C22_RenderSubstitutesStrings ==
    Returned("render") =>
        LET eval == ReturnOf("render").eval
            result == ReturnOf("render").result
        IN  /\ IsOk(result)
            /\ \A parts \in TemplateParts :
                  TemplateText(parts) = eval.prompt =>
                      Unwrap(result.val).prompt = Substituted(parts, eval.metadata)
            /\ ~HasPlaceholder(eval.prompt) => Unwrap(result.val).prompt = eval.prompt

\* "{{a}} {{n}} {{missing}}" was rendered with a string for a, a number for n and
\* nothing for missing: only {{a}} was replaced
C22_OnlyStringSubstituted ==
    /\ Returned("render")
    /\ input = "{{a}} {{n}} {{missing}}"
    /\ StringValue(ReturnOf("render").eval.metadata, "a") = Some("2")
    /\ IsOk(ReturnOf("render").result)
    /\ Unwrap(ReturnOf("render").result.val).prompt = "2 {{n}} {{missing}}"

\* the local rendered_eval of evaluation i, once run_eval has rendered the request
RenderedEval(i) == Unwrap(task[i].rendered)

\* text with the placeholders that have a string value in metadata replaced
SubstitutedText(text, rendered_text, metadata) ==
    \A parts \in TemplateParts :
        TemplateText(parts) = text => rendered_text = Substituted(parts, metadata)

C23_RenderedBeforeDispatch ==
    \A i \in DOMAIN evals :
        /\ task[i].pc = "init" => calls[i] = <<>>
        /\ task[i].pc # "init" =>
            /\ SubstitutedText(evals[i].prompt, RenderedEval(i).prompt, evals[i].metadata)
            /\ IsSome(RenderedEval(i).expected) = IsSome(evals[i].expected)
            /\ IsSome(evals[i].expected) =>
                    SubstitutedText(Unwrap(evals[i].expected), Unwrap(RenderedEval(i).expected),
                                    evals[i].metadata)
            /\ RenderedEval(i).model = evals[i].model
            /\ RenderedEval(i).judge_model = evals[i].judge_model
            /\ RenderedEval(i).criteria = evals[i].criteria
            /\ RenderedEval(i).tags = evals[i].tags
            /\ RenderedEval(i).metadata = evals[i].metadata
            /\ \A k \in CallsOf(i, "primary") : calls[i][k].prompt = RenderedEval(i).prompt

C23_RequestKept == evals' = evals

\* C23: rendering a request substitutes metadata into prompt and into expected, each
\* on its own, before the primary call is dispatched, and leaves model, judge_model,
\* criteria, tags and metadata exactly as in the request; the request itself is not
\* modified.
C23_RenderTouchesPromptAndExpected == []C23_RenderedBeforeDispatch /\ [][C23_RequestKept]_vars

\* a request with placeholders in prompt, expected, criteria and tags was dispatched:
\* prompt and expected are rendered, criteria and tags still hold their placeholders
C23_CriteriaKeepsPlaceholder ==
    \E i \in DOMAIN evals :
        /\ IsDone(i)
        /\ CallsOf(i, "primary") # {}
        /\ evals[i].prompt = "What is {{a}}+{{ b }}?"
        /\ RenderedEval(i).prompt = "What is 2+2?"
        /\ evals[i].expected = Some("{{sum}}")
        /\ RenderedEval(i).expected = Some("4")
        /\ RenderedEval(i).criteria = Some("The same number as {{sum}}.")
        /\ RenderedEval(i).tags = <<"math", "{{a}}">>

\* the single evaluation ended in an error of this kind and the handler has responded
RespondedToError(kind) ==
    /\ IsSome(response)
    /\ IsDone(1)
    /\ IsErr(Outcome(1))
    /\ Unwrap(Outcome(1).err).kind = kind

\* C24: a failed single evaluation is reported to the caller by its error class:
\* ProviderNotFound and configuration errors as a client-input failure (HTTP 400),
\* ModelFailure, the wrapper of the runtime failures of the model call, as a
\* server-class failure (HTTP 500).
C24_StatusByErrorClass ==
    /\ (RespondedToError("ProviderNotFound") \/ RespondedToError("Config")) =>
            Unwrap(response).http_status = 400
    /\ RespondedToError("ModelFailure") => Unwrap(response).http_status = 500

\* the model call failed at its provider (an API error or an unusable answer) and
\* the caller was told 400, as for a provider that is not configured
C24_ModelFailureAsBadRequest ==
    /\ RespondedToError("ModelFailure")
    /\ Configured(PrimaryProvider(1))
    /\ IsSome(task[1].primary_resp)
    /\ Unwrap(task[1].primary_resp).status = 500
    /\ Unwrap(response).http_status = 400
    /\ Unwrap(response).body.status = "error"

\* the body the single handler returns for the outcome of run_eval, listeners aside
BodyOf(res) ==
    IF IsOk(res)
    THEN EvalResponse(1, status_of(Unwrap(res.val)), res.val, None)
    ELSE EvalResponse(1, "error", None, Some(to_string(Unwrap(res.err))))

Registered(a) == \E k \in DOMAIN clients : clients[k] = a

C25_OneEventPerEvaluation ==
    /\ response = None => updates = <<>>
    /\ IsSome(response) =>
        /\ IsDone(1)
        /\ Unwrap(response).body = BodyOf(Outcome(1))
        /\ (Unwrap(response).http_status = 200) = IsOk(Outcome(1))
        /\ Len(updates) = 1
        /\ updates[1].status = Unwrap(response).body.status

\* the step in which the handler broadcasts and responds
C25_DeliveryIsBestEffort ==
    (response = None /\ response' # None) =>
        /\ task' = task
        /\ \A a \in DOMAIN connections :
              connections'[a].mailbox =
                  IF Registered(a) /\ connections[a].actor = "started"
                  THEN Append(connections[a].mailbox, updates'[1])
                  ELSE connections[a].mailbox

\* C25: one progress event is emitted for each evaluation that finishes, with an
\* outcome or with an error, and its delivery neither blocks nor fails the
\* evaluation: the result and the response are those of the outcome whichever
\* listeners are registered, and a delivery that fails keeps the event from no
\* other listener.
C25_ProgressEventsAreFireAndForget ==
    []C25_OneEventPerEvaluation /\ [][C25_DeliveryIsBestEffort]_vars

\* the first registered connection had stopped when the event was broadcast; the
\* second one received it and the caller has its response
C25_DeliveredPastClosedMailbox ==
    /\ IsSome(response)
    /\ Len(clients) = 2
    /\ connections[clients[1]].actor = "stopped"
    /\ connections[clients[1]].mailbox = <<>>
    /\ connections[clients[2]].actor = "started"
    /\ connections[clients[2]].mailbox = updates

\* the per-item response the batch handler returns for result k of run_batch_evals
ItemBodyOf(k, res) ==
    IF IsOk(res)
    THEN EvalResponse(k, status_of(Unwrap(res.val)), res.val, None)
    ELSE EvalResponse(k, "error", None, Some(to_string(Unwrap(res.err))))

\* C26: the result returned to the caller for an evaluation, single or item of a
\* batch, does not depend on persistence: it is the one the outcome of the
\* evaluation determines when saving succeeds, when saving fails and when there is
\* no database pool.
C26_ResponseWhateverTheSave ==
    IsSome(response) =>
        IF results = None
        THEN /\ Unwrap(response).body = BodyOf(Outcome(1))
             /\ (Unwrap(response).http_status = 200) = IsOk(Outcome(1))
        ELSE /\ Unwrap(response).http_status = 200
             /\ Len(Unwrap(response).body.results) = Len(evals)
             /\ \A k \in DOMAIN evals :
                   Unwrap(response).body.results[k] = ItemBodyOf(k, Unwrap(results)[k])

\* a batch of two with a database pool: the first item was saved, the save of the
\* second failed, and the response carries the results of both
C26_SecondSaveFailed ==
    /\ db_pool
    /\ IsSome(response)
    /\ IsSome(results)
    /\ Len(evals) = 2
    /\ IsOk(Unwrap(results)[2])
    /\ evaluations = {Unwrap(response).body.results[1]}
    /\ Unwrap(response).body.results[2].result = Unwrap(results)[2].val
    /\ Unwrap(response).body.results[2] \notin evaluations

\* the sum of f over the finite set S
RECURSIVE SumOf(_, _)
SumOf(S, f) ==
    IF S = {} THEN 0
    ELSE LET k == CHOOSE x \in S : TRUE IN f[k] + SumOf(S \ {k}, f)

\* the integer mean of f over S, 0 for the empty set
MeanOf(S, f) == IF S = {} THEN 0 ELSE SumOf(S, f) \div Cardinality(S)

\* the items of the batch by the way they ended
Outcomes == {k \in DOMAIN Unwrap(results) : IsOk(Unwrap(results)[k])}
Errored == {k \in DOMAIN Unwrap(results) : IsErr(Unwrap(results)[k])}
OutcomeOf(k) == Unwrap(Unwrap(results)[k].val)
WithVerdict(v) == {k \in Outcomes : verdict_of(OutcomeOf(k)) = Some(v)}
Judged == {k \in Outcomes : IsSome(OutcomeOf(k).judge_latency_ms)}

\* C27: in a batch response total is the number of input requests, completed counts
\* exactly the items that produced an outcome, passed the outcomes with verdict Pass,
\* failed the outcomes with verdict Fail plus the items that ended in an error; an
\* outcome without a judge result is completed and neither passed nor failed; an
\* errored item adds nothing to the means of the model and judge latencies, which
\* are 0 when no item contributes.
C27_BatchStatistics ==
    (IsSome(response) /\ IsSome(results)) =>
        LET body == Unwrap(response).body
        IN  /\ body.total = Len(evals)
            /\ body.completed = Cardinality(Outcomes)
            /\ body.passed = Cardinality(WithVerdict("Pass"))
            /\ body.failed = Cardinality(WithVerdict("Fail")) + Cardinality(Errored)
            /\ body.average_model_latency_ms
                  = MeanOf(Outcomes, [k \in Outcomes |-> OutcomeOf(k).latency_ms])
            /\ body.average_judge_latency_ms
                  = MeanOf(Judged, [k \in Judged |-> Unwrap(OutcomeOf(k).judge_latency_ms)])

\* a batch of two: one item ended in an error, the other in an outcome that was not
\* judged; one completed, none passed, one failed, and the model mean is the
\* latency of the one outcome
C27_ErrorBesideUnjudgedOutcome ==
    /\ IsSome(response)
    /\ IsSome(results)
    /\ Len(evals) = 2
    /\ Errored = {1}
    /\ Outcomes = {2}
    /\ OutcomeOf(2).judge_result = None
    /\ Unwrap(response).body.completed = 1
    /\ Unwrap(response).body.passed = 0
    /\ Unwrap(response).body.failed = 1
    /\ Unwrap(response).body.average_model_latency_ms = OutcomeOf(2).latency_ms
    /\ Unwrap(response).body.average_judge_latency_ms = 0

\* evaluation i asked for a judge, the judge's provider is configured and its
\* adapter accepted the answer
JudgeSucceeded(i) ==
    /\ JudgeRequested(i)
    /\ Configured(JudgeProvider(i))
    /\ IsSome(task[i].judge_resp)
    /\ IsOk(generate(JudgeProvider(i), Unwrap(task[i].judge_resp)))

\* C28: in every EvalOutcome judge_latency_ms is present if and only if judge_result
\* is present: a successful judge call sets both, and both are absent when judging
\* was skipped or the judge call failed.
C28_JudgeLatencyWithJudgeResult ==
    \A i \in DOMAIN evals :
        (IsDone(i) /\ IsOk(Outcome(i))) =>
            /\ IsSome(Unwrap(Outcome(i).val).judge_latency_ms)
                  = IsSome(Unwrap(Outcome(i).val).judge_result)
            /\ IsSome(Unwrap(Outcome(i).val).judge_result) = JudgeSucceeded(i)
            /\ JudgeSucceeded(i) =>
                  Unwrap(Outcome(i).val).judge_latency_ms
                      = Some(Unwrap(task[i].judge_resp).latency_ms)

\* the judge answered: the outcome carries its verdict and the latency of its answer
C28_JudgedWithLatency ==
    \E i \in DOMAIN evals :
        /\ IsDone(i)
        /\ IsOk(Outcome(i))
        /\ JudgeSucceeded(i)
        /\ IsSome(Unwrap(Outcome(i).val).judge_result)
        /\ Unwrap(Outcome(i).val).judge_latency_ms = Some(80)

Versions(rows) == {[version |-> r.version, template |-> r.template] : r \in rows}

ActiveVersions(rows) == {r.version : r \in {q \in rows : q.is_active}}

\* the step in which the request to activate version input is answered
C29_SetActiveStep ==
    (db_pool /\ response = None /\ response' # None) =>
        IF input \in {r.version : r \in judge_prompts}
        THEN /\ Unwrap(response').http_status = 200
             /\ ActiveVersions(judge_prompts') = {input}
             /\ Versions(judge_prompts') = Versions(judge_prompts)
        ELSE /\ Unwrap(response').http_status = 500
             /\ judge_prompts' = judge_prompts

\* C29: set_active_judge_prompt called with a version that does not exist returns
\* an error and changes nothing: the versions and the active one, if any, are those
\* of before the call; called with an existing version, exactly that version is
\* active afterwards.
C29_SetActiveUnknownVersion == [][C29_SetActiveStep]_vars

\* version 1 is active, version 3 was asked for and does not exist: the request got
\* an error and version 1 is still the active one
C29_UnknownVersionRefused ==
    /\ db_pool
    /\ input = 3
    /\ IsSome(response)
    /\ Unwrap(response).http_status = 500
    /\ ActiveVersions(judge_prompts) = {1}
    /\ 3 \notin {r.version : r \in judge_prompts}

\* connection a has stopped and the two tasks it spawned have run to their end
TasksFinished(a) ==
    /\ connections[a].actor = "stopped"
    /\ connections[a].register = "done"
    /\ connections[a].unregister = "done"

\* C30: once a WebSocket connection has stopped and the register and unregister
\* tasks it spawned have both finished, its address is no longer in the broker's
\* client list, in every interleaving of those tasks with broadcasts and with the
\* registrations of other connections; so no later broadcast is sent to it.
C30_StoppedConnectionUnregistered ==
    \A a \in DOMAIN connections : TasksFinished(a) => ~Registered(a)

\* the unregister task of a connection took the lock before its register task: both
\* have finished and the address of the stopped actor stays in clients for good,
\* beside the address of a live connection
C30_StaleAddressInClients ==
    \E a, b \in DOMAIN connections :
        /\ TasksFinished(a)
        /\ clients = <<b, a>>
        /\ connections[b].actor = "started"
        /\ connections[b].register = "done"

====
